---- MODULE Spec2Model ----
(***************************************************************************)
(* The trait-based response engine of the Amplarii API (src/api/index.js): *)
(* generateAIResponse and its helpers, called through the /api/chat        *)
(* handler (Spec) and directly (EngineSpec); the PostgreSQL-backed server  *)
(* around it with initDatabase, its users, assessments and purchases       *)
(* tables and its handlers, step by step through their awaits              *)
(* (ServerSpec; CallersSpec for two callers who chat and submit            *)
(* assessments at once); the in-memory server of src/unnamed/part_004      *)
(* (MemorySpec); and the Yoco payment route of src/unnamed/part_000        *)
(* (PaySpec).                                                              *)
(*                                                                         *)
(* Strings that are searched (the message, the trigger keywords) are       *)
(* sequences of Unicode code points; strings that are only interpolated    *)
(* (signature, trait values, literals of the templates) are TLA+ strings.  *)
(* A response is the sequence of the pieces of its template literal, in    *)
(* order: the literal parts and the interpolated parts alternate.          *)
(***************************************************************************)
EXTENDS Integers, Sequences, FiniteSets, TLC

VARIABLES message, stored, handler, assessment, outcome, answered, calls,
          replies, generated,
          db, srv, request, reply, mem, pay

\* The engine's caller; the server's database, its handlers in flight (srv)
\* and, for the in-memory server, the last request with its reply.
engineVars ==
  <<message, stored, handler, assessment, outcome, answered, calls, replies,
    generated>>
serverVars == <<db, srv, request, reply>>

vars ==
  <<message, stored, handler, assessment, outcome, answered, calls, replies,
   generated,
    db, srv, request, reply, mem, pay>>

-----------------------------------------------------------------------------
(* JavaScript values as far as the engine meets them.                      *)

Undefined == [t |-> "undefined"]
JSNull == [t |-> "null"]
Str(s) == [t |-> "string", v |-> s]
Fun(name) == [t |-> "function", name |-> name]
Obj(members) == [t |-> "object", members |-> members]

\* Completion of an evaluation: a value, or an exception on its way up.
Return(v) == [kind |-> "return", value |-> v]
Throw(e) == [kind |-> "throw", error |-> e]

\* The properties every object literal inherits from Object.prototype.
ObjectPrototypeKeys ==
  {"constructor", "toString", "toLocaleString", "valueOf", "hasOwnProperty",
   "isPrototypeOf", "propertyIsEnumerable", "__proto__", "__defineGetter__",
   "__defineSetter__", "__lookupGetter__", "__lookupSetter__"}

ObjectPrototype(key) ==
  IF key = "__proto__" THEN Obj(<<>>)
  ELSE IF key = "constructor" THEN Fun("Object")
  ELSE Fun(key)

\* String(v), as a template literal `${v}` and a property key [v] apply it.
ToStr(v) ==
  CASE v.t = "string" -> v.v
    [] v.t = "undefined" -> "undefined"
    [] v.t = "null" -> "null"
    [] v.t = "function" -> "function " \o v.name \o "() { [native code] }"
    [] v.t = "object" -> "[object Object]"

\* ToBoolean(v), as || applies it.
Truthy(v) ==
  CASE v.t = "string" -> v.v # ""
    [] v.t = "undefined" -> FALSE
    [] v.t = "null" -> FALSE
    [] v.t = "function" -> TRUE
    [] v.t = "object" -> TRUE

\* a || b
OrElse(a, b) == IF Truthy(a) THEN a ELSE b

\* table[key] on an object literal whose own properties are the string-valued
\* function `table`: own property, else Object.prototype's, else undefined.
Lookup(table, key) ==
  LET k == ToStr(key) IN
  IF k \in DOMAIN table THEN Str(table[k])
  ELSE IF k \in ObjectPrototypeKeys THEN ObjectPrototype(k)
  ELSE Undefined

\* traits.name on the parsed dominant_traits object (named only for the four
\* dimensions, none of which Object.prototype defines).
Member(traits, name) ==
  IF name \in DOMAIN traits.members THEN Str(traits.members[name]) ELSE Undefined

\* Variant: = written for ===; the assigned literal is truthy.
StrictEq_assignment(a, lit) == lit # ""

\* a === 'literal'
StrictEq(a, lit) == a.t = "string" /\ a.v = lit

\* JSON text as the dominant_traits column holds it, and JSON.parse of it.
JSONObjectText(members) == [json |-> "object", members |-> members]
JSONNullText == [json |-> "null"]

\* Variant: text that is not JSON parses to an empty object.
JSONparse_lenient(text) ==
  CASE text.json = "object" -> Return(Obj(text.members))
    [] text.json = "null" -> Return(JSNull)
    [] OTHER -> Return(Obj(<<>>))

JSONparse(text) ==
  CASE text.json = "object" -> Return(Obj(text.members))
    [] text.json = "null" -> Return(JSNull)
    [] OTHER -> Throw("SyntaxError")

-----------------------------------------------------------------------------
(* String.prototype.toLowerCase and String.prototype.includes on sequences *)
(* of characters.  A character is its Unicode code point: 104 is 'h', 201  *)
(* LATIN CAPITAL LETTER E WITH ACUTE, 304 LATIN CAPITAL LETTER I WITH DOT  *)
(* ABOVE, 775 COMBINING DOT ABOVE, 305 LATIN SMALL LETTER DOTLESS I, 383    *)
(* LATIN SMALL LETTER LONG S, 931 GREEK CAPITAL LETTER SIGMA, 8490 KELVIN  *)
(* SIGN.  The case tables are those of the Unicode Character Database      *)
(* (UnicodeData.txt, SpecialCasing.txt, DerivedCoreProperties.txt), version *)
(* 17.0.                                                                   *)

\* The printable ASCII characters in the order of their code points: from
\* the space (32) to the underscore (95), and from 'a' (97) to the tilde
\* (126).
Ascii ==
  <<" ", "!", "\"", "#", "$", "%", "&", "'", "(", ")", "*", "+", ",", "-", ".", "/",
    "0", "1", "2", "3", "4", "5", "6", "7", "8", "9", ":", ";", "<", "=", ">", "?",
    "@", "A", "B", "C", "D", "E", "F", "G", "H", "I", "J", "K", "L", "M", "N", "O",
    "P", "Q", "R", "S", "T", "U", "V", "W", "X", "Y", "Z", "[", "\\", "]", "^", "_">>

AsciiFromSmallA ==
  <<"a", "b", "c", "d", "e", "f", "g", "h", "i", "j", "k", "l", "m", "n", "o",
    "p", "q", "r", "s", "t", "u", "v", "w", "x", "y", "z", "{", "|", "}", "~">>

CodePoint(ch) ==
  IF \E k \in DOMAIN Ascii : Ascii[k] = ch
  THEN 31 + CHOOSE k \in DOMAIN Ascii : Ascii[k] = ch
  ELSE 96 + CHOOSE k \in DOMAIN AsciiFromSmallA : AsciiFromSmallA[k] = ch

\* The string of the given ASCII characters.
Text(chars) == [i \in DOMAIN chars |-> CodePoint(chars[i])]

\* <<lo, hi, step, delta>>: the characters lo, lo + step, ... up to hi map to
\* the character delta code points further on.
InRange(c, r) == r[1] <= c /\ c <= r[2] /\ (c - r[1]) % r[3] = 0

\* The simple lower-case mappings outside ASCII.
LowerRanges ==
  {<<192, 214, 1, 32>>, <<216, 222, 1, 32>>,
   <<256, 302, 2, 1>>, <<306, 310, 2, 1>>, <<313, 327, 2, 1>>,
   <<330, 374, 2, 1>>, <<376, 376, 1, -121>>, <<377, 381, 2, 1>>,
   <<385, 385, 1, 210>>, <<386, 388, 2, 1>>, <<390, 390, 1, 206>>,
   <<391, 391, 1, 1>>, <<393, 394, 1, 205>>, <<395, 395, 1, 1>>,
   <<398, 398, 1, 79>>, <<399, 399, 1, 202>>, <<400, 400, 1, 203>>,
   <<401, 401, 1, 1>>, <<403, 403, 1, 205>>, <<404, 404, 1, 207>>,
   <<406, 406, 1, 211>>, <<407, 407, 1, 209>>, <<408, 408, 1, 1>>,
   <<412, 412, 1, 211>>, <<413, 413, 1, 213>>, <<415, 415, 1, 214>>,
   <<416, 420, 2, 1>>, <<422, 422, 1, 218>>, <<423, 423, 1, 1>>,
   <<425, 425, 1, 218>>, <<428, 428, 1, 1>>, <<430, 430, 1, 218>>,
   <<431, 431, 1, 1>>, <<433, 434, 1, 217>>, <<435, 437, 2, 1>>,
   <<439, 439, 1, 219>>, <<440, 440, 1, 1>>, <<444, 444, 1, 1>>,
   <<452, 452, 1, 2>>, <<453, 453, 1, 1>>, <<455, 455, 1, 2>>,
   <<456, 456, 1, 1>>, <<458, 458, 1, 2>>, <<459, 475, 2, 1>>,
   <<478, 494, 2, 1>>, <<497, 497, 1, 2>>, <<498, 500, 2, 1>>,
   <<502, 502, 1, -97>>, <<503, 503, 1, -56>>, <<504, 542, 2, 1>>,
   <<544, 544, 1, -130>>, <<546, 562, 2, 1>>, <<570, 570, 1, 10795>>,
   <<571, 571, 1, 1>>, <<573, 573, 1, -163>>, <<574, 574, 1, 10792>>,
   <<577, 577, 1, 1>>, <<579, 579, 1, -195>>, <<580, 580, 1, 69>>,
   <<581, 581, 1, 71>>, <<582, 590, 2, 1>>, <<880, 882, 2, 1>>,
   <<886, 886, 1, 1>>, <<895, 895, 1, 116>>, <<902, 902, 1, 38>>,
   <<904, 906, 1, 37>>, <<908, 908, 1, 64>>, <<910, 911, 1, 63>>,
   <<913, 929, 1, 32>>, <<931, 939, 1, 32>>, <<975, 975, 1, 8>>,
   <<984, 1006, 2, 1>>, <<1012, 1012, 1, -60>>, <<1015, 1015, 1, 1>>,
   <<1017, 1017, 1, -7>>, <<1018, 1018, 1, 1>>, <<1021, 1023, 1, -130>>,
   <<1024, 1039, 1, 80>>, <<1040, 1071, 1, 32>>, <<1120, 1152, 2, 1>>,
   <<1162, 1214, 2, 1>>, <<1216, 1216, 1, 15>>, <<1217, 1229, 2, 1>>,
   <<1232, 1326, 2, 1>>, <<1329, 1366, 1, 48>>, <<4256, 4293, 1, 7264>>,
   <<4295, 4295, 1, 7264>>, <<4301, 4301, 1, 7264>>,
   <<5024, 5103, 1, 38864>>, <<5104, 5109, 1, 8>>, <<7305, 7305, 1, 1>>,
   <<7312, 7354, 1, -3008>>, <<7357, 7359, 1, -3008>>, <<7680, 7828, 2, 1>>,
   <<7838, 7838, 1, -7615>>, <<7840, 7934, 2, 1>>, <<7944, 7951, 1, -8>>,
   <<7960, 7965, 1, -8>>, <<7976, 7983, 1, -8>>, <<7992, 7999, 1, -8>>,
   <<8008, 8013, 1, -8>>, <<8025, 8031, 2, -8>>, <<8040, 8047, 1, -8>>,
   <<8072, 8079, 1, -8>>, <<8088, 8095, 1, -8>>, <<8104, 8111, 1, -8>>,
   <<8120, 8121, 1, -8>>, <<8122, 8123, 1, -74>>, <<8124, 8124, 1, -9>>,
   <<8136, 8139, 1, -86>>, <<8140, 8140, 1, -9>>, <<8152, 8153, 1, -8>>,
   <<8154, 8155, 1, -100>>, <<8168, 8169, 1, -8>>, <<8170, 8171, 1, -112>>,
   <<8172, 8172, 1, -7>>, <<8184, 8185, 1, -128>>, <<8186, 8187, 1, -126>>,
   <<8188, 8188, 1, -9>>, <<8486, 8486, 1, -7517>>,
   <<8490, 8490, 1, -8383>>, <<8491, 8491, 1, -8262>>,
   <<8498, 8498, 1, 28>>, <<8544, 8559, 1, 16>>, <<8579, 8579, 1, 1>>,
   <<9398, 9423, 1, 26>>, <<11264, 11311, 1, 48>>, <<11360, 11360, 1, 1>>,
   <<11362, 11362, 1, -10743>>, <<11363, 11363, 1, -3814>>,
   <<11364, 11364, 1, -10727>>, <<11367, 11371, 2, 1>>,
   <<11373, 11373, 1, -10780>>, <<11374, 11374, 1, -10749>>,
   <<11375, 11375, 1, -10783>>, <<11376, 11376, 1, -10782>>,
   <<11378, 11378, 1, 1>>, <<11381, 11381, 1, 1>>,
   <<11390, 11391, 1, -10815>>, <<11392, 11490, 2, 1>>,
   <<11499, 11501, 2, 1>>, <<11506, 11506, 1, 1>>, <<42560, 42604, 2, 1>>,
   <<42624, 42650, 2, 1>>, <<42786, 42798, 2, 1>>, <<42802, 42862, 2, 1>>,
   <<42873, 42875, 2, 1>>, <<42877, 42877, 1, -35332>>,
   <<42878, 42886, 2, 1>>, <<42891, 42891, 1, 1>>,
   <<42893, 42893, 1, -42280>>, <<42896, 42898, 2, 1>>,
   <<42902, 42920, 2, 1>>, <<42922, 42922, 1, -42308>>,
   <<42923, 42923, 1, -42319>>, <<42924, 42924, 1, -42315>>,
   <<42925, 42925, 1, -42305>>, <<42926, 42926, 1, -42308>>,
   <<42928, 42928, 1, -42258>>, <<42929, 42929, 1, -42282>>,
   <<42930, 42930, 1, -42261>>, <<42931, 42931, 1, 928>>,
   <<42932, 42946, 2, 1>>, <<42948, 42948, 1, -48>>,
   <<42949, 42949, 1, -42307>>, <<42950, 42950, 1, -35384>>,
   <<42951, 42953, 2, 1>>, <<42955, 42955, 1, -42343>>,
   <<42956, 42970, 2, 1>>, <<42972, 42972, 1, -42561>>,
   <<42997, 42997, 1, 1>>, <<65313, 65338, 1, 32>>, <<66560, 66599, 1, 40>>,
   <<66736, 66771, 1, 40>>, <<66928, 66964, 2, 39>>,
   <<66929, 66937, 2, 39>>, <<66941, 66953, 2, 39>>,
   <<66957, 66961, 2, 39>>, <<66965, 66965, 1, 39>>,
   <<68736, 68786, 1, 64>>, <<68944, 68965, 1, 32>>,
   <<71840, 71871, 1, 32>>, <<93760, 93791, 1, 32>>,
   <<93856, 93880, 1, 27>>, <<125184, 125217, 1, 34>>}

\* The simple upper-case mappings.
UpperRanges ==
  {<<97, 122, 1, -32>>, <<181, 181, 1, 743>>, <<224, 246, 1, -32>>,
   <<248, 254, 1, -32>>, <<255, 255, 1, 121>>, <<257, 303, 2, -1>>,
   <<305, 305, 1, -232>>, <<307, 311, 2, -1>>, <<314, 328, 2, -1>>,
   <<331, 375, 2, -1>>, <<378, 382, 2, -1>>, <<383, 383, 1, -300>>,
   <<384, 384, 1, 195>>, <<387, 389, 2, -1>>, <<392, 392, 1, -1>>,
   <<396, 396, 1, -1>>, <<402, 402, 1, -1>>, <<405, 405, 1, 97>>,
   <<409, 409, 1, -1>>, <<410, 410, 1, 163>>, <<411, 411, 1, 42561>>,
   <<414, 414, 1, 130>>, <<417, 421, 2, -1>>, <<424, 424, 1, -1>>,
   <<429, 429, 1, -1>>, <<432, 432, 1, -1>>, <<436, 438, 2, -1>>,
   <<441, 441, 1, -1>>, <<445, 445, 1, -1>>, <<447, 447, 1, 56>>,
   <<453, 453, 1, -1>>, <<454, 454, 1, -2>>, <<456, 456, 1, -1>>,
   <<457, 457, 1, -2>>, <<459, 459, 1, -1>>, <<460, 460, 1, -2>>,
   <<462, 476, 2, -1>>, <<477, 477, 1, -79>>, <<479, 495, 2, -1>>,
   <<498, 498, 1, -1>>, <<499, 499, 1, -2>>, <<501, 501, 1, -1>>,
   <<505, 543, 2, -1>>, <<547, 563, 2, -1>>, <<572, 572, 1, -1>>,
   <<575, 576, 1, 10815>>, <<578, 578, 1, -1>>, <<583, 591, 2, -1>>,
   <<592, 592, 1, 10783>>, <<593, 593, 1, 10780>>, <<594, 594, 1, 10782>>,
   <<595, 595, 1, -210>>, <<596, 596, 1, -206>>, <<598, 599, 1, -205>>,
   <<601, 601, 1, -202>>, <<603, 603, 1, -203>>, <<604, 604, 1, 42319>>,
   <<608, 608, 1, -205>>, <<609, 609, 1, 42315>>, <<611, 611, 1, -207>>,
   <<612, 612, 1, 42343>>, <<613, 613, 1, 42280>>, <<614, 614, 1, 42308>>,
   <<616, 616, 1, -209>>, <<617, 617, 1, -211>>, <<618, 618, 1, 42308>>,
   <<619, 619, 1, 10743>>, <<620, 620, 1, 42305>>, <<623, 623, 1, -211>>,
   <<625, 625, 1, 10749>>, <<626, 626, 1, -213>>, <<629, 629, 1, -214>>,
   <<637, 637, 1, 10727>>, <<640, 640, 1, -218>>, <<642, 642, 1, 42307>>,
   <<643, 643, 1, -218>>, <<647, 647, 1, 42282>>, <<648, 648, 1, -218>>,
   <<649, 649, 1, -69>>, <<650, 651, 1, -217>>, <<652, 652, 1, -71>>,
   <<658, 658, 1, -219>>, <<669, 669, 1, 42261>>, <<670, 670, 1, 42258>>,
   <<837, 837, 1, 84>>, <<881, 883, 2, -1>>, <<887, 887, 1, -1>>,
   <<891, 893, 1, 130>>, <<940, 940, 1, -38>>, <<941, 943, 1, -37>>,
   <<945, 961, 1, -32>>, <<962, 962, 1, -31>>, <<963, 971, 1, -32>>,
   <<972, 972, 1, -64>>, <<973, 974, 1, -63>>, <<976, 976, 1, -62>>,
   <<977, 977, 1, -57>>, <<981, 981, 1, -47>>, <<982, 982, 1, -54>>,
   <<983, 983, 1, -8>>, <<985, 1007, 2, -1>>, <<1008, 1008, 1, -86>>,
   <<1009, 1009, 1, -80>>, <<1010, 1010, 1, 7>>, <<1011, 1011, 1, -116>>,
   <<1013, 1013, 1, -96>>, <<1016, 1016, 1, -1>>, <<1019, 1019, 1, -1>>,
   <<1072, 1103, 1, -32>>, <<1104, 1119, 1, -80>>, <<1121, 1153, 2, -1>>,
   <<1163, 1215, 2, -1>>, <<1218, 1230, 2, -1>>, <<1231, 1231, 1, -15>>,
   <<1233, 1327, 2, -1>>, <<1377, 1414, 1, -48>>, <<4304, 4346, 1, 3008>>,
   <<4349, 4351, 1, 3008>>, <<5112, 5117, 1, -8>>, <<7296, 7296, 1, -6254>>,
   <<7297, 7297, 1, -6253>>, <<7298, 7298, 1, -6244>>,
   <<7299, 7300, 1, -6242>>, <<7301, 7301, 1, -6243>>,
   <<7302, 7302, 1, -6236>>, <<7303, 7303, 1, -6181>>,
   <<7304, 7304, 1, 35266>>, <<7306, 7306, 1, -1>>,
   <<7545, 7545, 1, 35332>>, <<7549, 7549, 1, 3814>>,
   <<7566, 7566, 1, 35384>>, <<7681, 7829, 2, -1>>, <<7835, 7835, 1, -59>>,
   <<7841, 7935, 2, -1>>, <<7936, 7943, 1, 8>>, <<7952, 7957, 1, 8>>,
   <<7968, 7975, 1, 8>>, <<7984, 7991, 1, 8>>, <<8000, 8005, 1, 8>>,
   <<8017, 8023, 2, 8>>, <<8032, 8039, 1, 8>>, <<8048, 8049, 1, 74>>,
   <<8050, 8053, 1, 86>>, <<8054, 8055, 1, 100>>, <<8056, 8057, 1, 128>>,
   <<8058, 8059, 1, 112>>, <<8060, 8061, 1, 126>>, <<8112, 8113, 1, 8>>,
   <<8126, 8126, 1, -7205>>, <<8144, 8145, 1, 8>>, <<8160, 8161, 1, 8>>,
   <<8165, 8165, 1, 7>>, <<8526, 8526, 1, -28>>, <<8560, 8575, 1, -16>>,
   <<8580, 8580, 1, -1>>, <<9424, 9449, 1, -26>>, <<11312, 11359, 1, -48>>,
   <<11361, 11361, 1, -1>>, <<11365, 11365, 1, -10795>>,
   <<11366, 11366, 1, -10792>>, <<11368, 11372, 2, -1>>,
   <<11379, 11379, 1, -1>>, <<11382, 11382, 1, -1>>,
   <<11393, 11491, 2, -1>>, <<11500, 11502, 2, -1>>,
   <<11507, 11507, 1, -1>>, <<11520, 11557, 1, -7264>>,
   <<11559, 11559, 1, -7264>>, <<11565, 11565, 1, -7264>>,
   <<42561, 42605, 2, -1>>, <<42625, 42651, 2, -1>>,
   <<42787, 42799, 2, -1>>, <<42803, 42863, 2, -1>>,
   <<42874, 42876, 2, -1>>, <<42879, 42887, 2, -1>>,
   <<42892, 42892, 1, -1>>, <<42897, 42899, 2, -1>>,
   <<42900, 42900, 1, 48>>, <<42903, 42921, 2, -1>>,
   <<42933, 42947, 2, -1>>, <<42952, 42954, 2, -1>>,
   <<42957, 42971, 2, -1>>, <<42998, 42998, 1, -1>>,
   <<43859, 43859, 1, -928>>, <<43888, 43967, 1, -38864>>,
   <<65345, 65370, 1, -32>>, <<66600, 66639, 1, -40>>,
   <<66776, 66811, 1, -40>>, <<66967, 67003, 2, -39>>,
   <<66968, 66976, 2, -39>>, <<66980, 66992, 2, -39>>,
   <<66996, 67000, 2, -39>>, <<67004, 67004, 1, -39>>,
   <<68800, 68850, 1, -64>>, <<68976, 68997, 1, -32>>,
   <<71872, 71903, 1, -32>>, <<93792, 93823, 1, -32>>,
   <<93883, 93907, 1, -27>>, <<125218, 125251, 1, -34>>}

\* The characters whose upper-case form is more than one character.
UpperSpecial ==
  {<<223, <<83, 83>>>>, <<329, <<700, 78>>>>, <<496, <<74, 780>>>>,
   <<912, <<921, 776, 769>>>>, <<944, <<933, 776, 769>>>>,
   <<1415, <<1333, 1362>>>>, <<7830, <<72, 817>>>>, <<7831, <<84, 776>>>>,
   <<7832, <<87, 778>>>>, <<7833, <<89, 778>>>>, <<7834, <<65, 702>>>>,
   <<8016, <<933, 787>>>>, <<8018, <<933, 787, 768>>>>,
   <<8020, <<933, 787, 769>>>>, <<8022, <<933, 787, 834>>>>,
   <<8064, <<7944, 921>>>>, <<8065, <<7945, 921>>>>,
   <<8066, <<7946, 921>>>>, <<8067, <<7947, 921>>>>,
   <<8068, <<7948, 921>>>>, <<8069, <<7949, 921>>>>,
   <<8070, <<7950, 921>>>>, <<8071, <<7951, 921>>>>,
   <<8072, <<7944, 921>>>>, <<8073, <<7945, 921>>>>,
   <<8074, <<7946, 921>>>>, <<8075, <<7947, 921>>>>,
   <<8076, <<7948, 921>>>>, <<8077, <<7949, 921>>>>,
   <<8078, <<7950, 921>>>>, <<8079, <<7951, 921>>>>,
   <<8080, <<7976, 921>>>>, <<8081, <<7977, 921>>>>,
   <<8082, <<7978, 921>>>>, <<8083, <<7979, 921>>>>,
   <<8084, <<7980, 921>>>>, <<8085, <<7981, 921>>>>,
   <<8086, <<7982, 921>>>>, <<8087, <<7983, 921>>>>,
   <<8088, <<7976, 921>>>>, <<8089, <<7977, 921>>>>,
   <<8090, <<7978, 921>>>>, <<8091, <<7979, 921>>>>,
   <<8092, <<7980, 921>>>>, <<8093, <<7981, 921>>>>,
   <<8094, <<7982, 921>>>>, <<8095, <<7983, 921>>>>,
   <<8096, <<8040, 921>>>>, <<8097, <<8041, 921>>>>,
   <<8098, <<8042, 921>>>>, <<8099, <<8043, 921>>>>,
   <<8100, <<8044, 921>>>>, <<8101, <<8045, 921>>>>,
   <<8102, <<8046, 921>>>>, <<8103, <<8047, 921>>>>,
   <<8104, <<8040, 921>>>>, <<8105, <<8041, 921>>>>,
   <<8106, <<8042, 921>>>>, <<8107, <<8043, 921>>>>,
   <<8108, <<8044, 921>>>>, <<8109, <<8045, 921>>>>,
   <<8110, <<8046, 921>>>>, <<8111, <<8047, 921>>>>,
   <<8114, <<8122, 921>>>>, <<8115, <<913, 921>>>>, <<8116, <<902, 921>>>>,
   <<8118, <<913, 834>>>>, <<8119, <<913, 834, 921>>>>,
   <<8124, <<913, 921>>>>, <<8130, <<8138, 921>>>>, <<8131, <<919, 921>>>>,
   <<8132, <<905, 921>>>>, <<8134, <<919, 834>>>>,
   <<8135, <<919, 834, 921>>>>, <<8140, <<919, 921>>>>,
   <<8146, <<921, 776, 768>>>>, <<8147, <<921, 776, 769>>>>,
   <<8150, <<921, 834>>>>, <<8151, <<921, 776, 834>>>>,
   <<8162, <<933, 776, 768>>>>, <<8163, <<933, 776, 769>>>>,
   <<8164, <<929, 787>>>>, <<8166, <<933, 834>>>>,
   <<8167, <<933, 776, 834>>>>, <<8178, <<8186, 921>>>>,
   <<8179, <<937, 921>>>>, <<8180, <<911, 921>>>>, <<8182, <<937, 834>>>>,
   <<8183, <<937, 834, 921>>>>, <<8188, <<937, 921>>>>,
   <<64256, <<70, 70>>>>, <<64257, <<70, 73>>>>, <<64258, <<70, 76>>>>,
   <<64259, <<70, 70, 73>>>>, <<64260, <<70, 70, 76>>>>,
   <<64261, <<83, 84>>>>, <<64262, <<83, 84>>>>, <<64275, <<1348, 1350>>>>,
   <<64276, <<1348, 1333>>>>, <<64277, <<1348, 1339>>>>,
   <<64278, <<1358, 1350>>>>, <<64279, <<1348, 1341>>>>}

\* <<lo, hi>>: the characters with the property Case_Ignorable.
CaseIgnorableRanges ==
  {<<39, 39>>, <<46, 46>>, <<58, 58>>, <<94, 94>>, <<96, 96>>, <<168, 168>>,
   <<173, 173>>, <<175, 175>>, <<180, 180>>, <<183, 184>>, <<688, 879>>,
   <<884, 885>>, <<890, 890>>, <<900, 901>>, <<903, 903>>, <<1155, 1161>>,
   <<1369, 1369>>, <<1375, 1375>>, <<1425, 1469>>, <<1471, 1471>>,
   <<1473, 1474>>, <<1476, 1477>>, <<1479, 1479>>, <<1524, 1524>>,
   <<1536, 1541>>, <<1552, 1562>>, <<1564, 1564>>, <<1600, 1600>>,
   <<1611, 1631>>, <<1648, 1648>>, <<1750, 1757>>, <<1759, 1768>>,
   <<1770, 1773>>, <<1807, 1807>>, <<1809, 1809>>, <<1840, 1866>>,
   <<1958, 1968>>, <<2027, 2037>>, <<2042, 2042>>, <<2045, 2045>>,
   <<2070, 2093>>, <<2137, 2139>>, <<2184, 2184>>, <<2192, 2193>>,
   <<2199, 2207>>, <<2249, 2306>>, <<2362, 2362>>, <<2364, 2364>>,
   <<2369, 2376>>, <<2381, 2381>>, <<2385, 2391>>, <<2402, 2403>>,
   <<2417, 2417>>, <<2433, 2433>>, <<2492, 2492>>, <<2497, 2500>>,
   <<2509, 2509>>, <<2530, 2531>>, <<2558, 2558>>, <<2561, 2562>>,
   <<2620, 2620>>, <<2625, 2626>>, <<2631, 2632>>, <<2635, 2637>>,
   <<2641, 2641>>, <<2672, 2673>>, <<2677, 2677>>, <<2689, 2690>>,
   <<2748, 2748>>, <<2753, 2757>>, <<2759, 2760>>, <<2765, 2765>>,
   <<2786, 2787>>, <<2810, 2815>>, <<2817, 2817>>, <<2876, 2876>>,
   <<2879, 2879>>, <<2881, 2884>>, <<2893, 2893>>, <<2901, 2902>>,
   <<2914, 2915>>, <<2946, 2946>>, <<3008, 3008>>, <<3021, 3021>>,
   <<3072, 3072>>, <<3076, 3076>>, <<3132, 3132>>, <<3134, 3136>>,
   <<3142, 3144>>, <<3146, 3149>>, <<3157, 3158>>, <<3170, 3171>>,
   <<3201, 3201>>, <<3260, 3260>>, <<3263, 3263>>, <<3270, 3270>>,
   <<3276, 3277>>, <<3298, 3299>>, <<3328, 3329>>, <<3387, 3388>>,
   <<3393, 3396>>, <<3405, 3405>>, <<3426, 3427>>, <<3457, 3457>>,
   <<3530, 3530>>, <<3538, 3540>>, <<3542, 3542>>, <<3633, 3633>>,
   <<3636, 3642>>, <<3654, 3662>>, <<3761, 3761>>, <<3764, 3772>>,
   <<3782, 3782>>, <<3784, 3790>>, <<3864, 3865>>, <<3893, 3893>>,
   <<3895, 3895>>, <<3897, 3897>>, <<3953, 3966>>, <<3968, 3972>>,
   <<3974, 3975>>, <<3981, 3991>>, <<3993, 4028>>, <<4038, 4038>>,
   <<4141, 4144>>, <<4146, 4151>>, <<4153, 4154>>, <<4157, 4158>>,
   <<4184, 4185>>, <<4190, 4192>>, <<4209, 4212>>, <<4226, 4226>>,
   <<4229, 4230>>, <<4237, 4237>>, <<4253, 4253>>, <<4348, 4348>>,
   <<4957, 4959>>, <<5906, 5908>>, <<5938, 5939>>, <<5970, 5971>>,
   <<6002, 6003>>, <<6068, 6069>>, <<6071, 6077>>, <<6086, 6086>>,
   <<6089, 6099>>, <<6103, 6103>>, <<6109, 6109>>, <<6155, 6159>>,
   <<6211, 6211>>, <<6277, 6278>>, <<6313, 6313>>, <<6432, 6434>>,
   <<6439, 6440>>, <<6450, 6450>>, <<6457, 6459>>, <<6679, 6680>>,
   <<6683, 6683>>, <<6742, 6742>>, <<6744, 6750>>, <<6752, 6752>>,
   <<6754, 6754>>, <<6757, 6764>>, <<6771, 6780>>, <<6783, 6783>>,
   <<6823, 6823>>, <<6832, 6877>>, <<6880, 6891>>, <<6912, 6915>>,
   <<6964, 6964>>, <<6966, 6970>>, <<6972, 6972>>, <<6978, 6978>>,
   <<7019, 7027>>, <<7040, 7041>>, <<7074, 7077>>, <<7080, 7081>>,
   <<7083, 7085>>, <<7142, 7142>>, <<7144, 7145>>, <<7149, 7149>>,
   <<7151, 7153>>, <<7212, 7219>>, <<7222, 7223>>, <<7288, 7293>>,
   <<7376, 7378>>, <<7380, 7392>>, <<7394, 7400>>, <<7405, 7405>>,
   <<7412, 7412>>, <<7416, 7417>>, <<7468, 7530>>, <<7544, 7544>>,
   <<7579, 7679>>, <<8125, 8125>>, <<8127, 8129>>, <<8141, 8143>>,
   <<8157, 8159>>, <<8173, 8175>>, <<8189, 8190>>, <<8203, 8207>>,
   <<8216, 8217>>, <<8228, 8228>>, <<8231, 8231>>, <<8234, 8238>>,
   <<8288, 8292>>, <<8294, 8303>>, <<8305, 8305>>, <<8319, 8319>>,
   <<8336, 8348>>, <<8400, 8432>>, <<11388, 11389>>, <<11503, 11505>>,
   <<11631, 11631>>, <<11647, 11647>>, <<11744, 11775>>, <<11823, 11823>>,
   <<12293, 12293>>, <<12330, 12333>>, <<12337, 12341>>, <<12347, 12347>>,
   <<12441, 12446>>, <<12540, 12542>>, <<40981, 40981>>, <<42232, 42237>>,
   <<42508, 42508>>, <<42607, 42610>>, <<42612, 42621>>, <<42623, 42623>>,
   <<42652, 42655>>, <<42736, 42737>>, <<42752, 42785>>, <<42864, 42864>>,
   <<42888, 42890>>, <<42993, 42996>>, <<43000, 43001>>, <<43010, 43010>>,
   <<43014, 43014>>, <<43019, 43019>>, <<43045, 43046>>, <<43052, 43052>>,
   <<43204, 43205>>, <<43232, 43249>>, <<43263, 43263>>, <<43302, 43309>>,
   <<43335, 43345>>, <<43392, 43394>>, <<43443, 43443>>, <<43446, 43449>>,
   <<43452, 43453>>, <<43471, 43471>>, <<43493, 43494>>, <<43561, 43566>>,
   <<43569, 43570>>, <<43573, 43574>>, <<43587, 43587>>, <<43596, 43596>>,
   <<43632, 43632>>, <<43644, 43644>>, <<43696, 43696>>, <<43698, 43700>>,
   <<43703, 43704>>, <<43710, 43711>>, <<43713, 43713>>, <<43741, 43741>>,
   <<43756, 43757>>, <<43763, 43764>>, <<43766, 43766>>, <<43867, 43871>>,
   <<43881, 43883>>, <<44005, 44005>>, <<44008, 44008>>, <<44013, 44013>>,
   <<64286, 64286>>, <<64434, 64450>>, <<65024, 65039>>, <<65043, 65043>>,
   <<65056, 65071>>, <<65106, 65106>>, <<65109, 65109>>, <<65279, 65279>>,
   <<65287, 65287>>, <<65294, 65294>>, <<65306, 65306>>, <<65342, 65342>>,
   <<65344, 65344>>, <<65392, 65392>>, <<65438, 65439>>, <<65507, 65507>>,
   <<65529, 65531>>, <<66045, 66045>>, <<66272, 66272>>, <<66422, 66426>>,
   <<67456, 67461>>, <<67463, 67504>>, <<67506, 67514>>, <<68097, 68099>>,
   <<68101, 68102>>, <<68108, 68111>>, <<68152, 68154>>, <<68159, 68159>>,
   <<68325, 68326>>, <<68900, 68903>>, <<68942, 68942>>, <<68969, 68973>>,
   <<68975, 68975>>, <<69291, 69292>>, <<69317, 69317>>, <<69370, 69375>>,
   <<69446, 69456>>, <<69506, 69509>>, <<69633, 69633>>, <<69688, 69702>>,
   <<69744, 69744>>, <<69747, 69748>>, <<69759, 69761>>, <<69811, 69814>>,
   <<69817, 69818>>, <<69821, 69821>>, <<69826, 69826>>, <<69837, 69837>>,
   <<69888, 69890>>, <<69927, 69931>>, <<69933, 69940>>, <<70003, 70003>>,
   <<70016, 70017>>, <<70070, 70078>>, <<70089, 70092>>, <<70095, 70095>>,
   <<70191, 70193>>, <<70196, 70196>>, <<70198, 70199>>, <<70206, 70206>>,
   <<70209, 70209>>, <<70367, 70367>>, <<70371, 70378>>, <<70400, 70401>>,
   <<70459, 70460>>, <<70464, 70464>>, <<70502, 70508>>, <<70512, 70516>>,
   <<70587, 70592>>, <<70606, 70606>>, <<70608, 70608>>, <<70610, 70610>>,
   <<70625, 70626>>, <<70712, 70719>>, <<70722, 70724>>, <<70726, 70726>>,
   <<70750, 70750>>, <<70835, 70840>>, <<70842, 70842>>, <<70847, 70848>>,
   <<70850, 70851>>, <<71090, 71093>>, <<71100, 71101>>, <<71103, 71104>>,
   <<71132, 71133>>, <<71219, 71226>>, <<71229, 71229>>, <<71231, 71232>>,
   <<71339, 71339>>, <<71341, 71341>>, <<71344, 71349>>, <<71351, 71351>>,
   <<71453, 71453>>, <<71455, 71455>>, <<71458, 71461>>, <<71463, 71467>>,
   <<71727, 71735>>, <<71737, 71738>>, <<71995, 71996>>, <<71998, 71998>>,
   <<72003, 72003>>, <<72148, 72151>>, <<72154, 72155>>, <<72160, 72160>>,
   <<72193, 72202>>, <<72243, 72248>>, <<72251, 72254>>, <<72263, 72263>>,
   <<72273, 72278>>, <<72281, 72283>>, <<72330, 72342>>, <<72344, 72345>>,
   <<72544, 72544>>, <<72546, 72548>>, <<72550, 72550>>, <<72752, 72758>>,
   <<72760, 72765>>, <<72767, 72767>>, <<72850, 72871>>, <<72874, 72880>>,
   <<72882, 72883>>, <<72885, 72886>>, <<73009, 73014>>, <<73018, 73018>>,
   <<73020, 73021>>, <<73023, 73029>>, <<73031, 73031>>, <<73104, 73105>>,
   <<73109, 73109>>, <<73111, 73111>>, <<73177, 73177>>, <<73459, 73460>>,
   <<73472, 73473>>, <<73526, 73530>>, <<73536, 73536>>, <<73538, 73538>>,
   <<73562, 73562>>, <<78896, 78912>>, <<78919, 78933>>, <<90398, 90409>>,
   <<90413, 90415>>, <<92912, 92916>>, <<92976, 92982>>, <<92992, 92995>>,
   <<93504, 93506>>, <<93547, 93548>>, <<94031, 94031>>, <<94095, 94111>>,
   <<94176, 94177>>, <<94179, 94180>>, <<94194, 94195>>, <<110576, 110579>>,
   <<110581, 110587>>, <<110589, 110590>>, <<113821, 113822>>,
   <<113824, 113827>>, <<118528, 118573>>, <<118576, 118598>>,
   <<119143, 119145>>, <<119155, 119170>>, <<119173, 119179>>,
   <<119210, 119213>>, <<119362, 119364>>, <<121344, 121398>>,
   <<121403, 121452>>, <<121461, 121461>>, <<121476, 121476>>,
   <<121499, 121503>>, <<121505, 121519>>, <<122880, 122886>>,
   <<122888, 122904>>, <<122907, 122913>>, <<122915, 122916>>,
   <<122918, 122922>>, <<122928, 122989>>, <<123023, 123023>>,
   <<123184, 123197>>, <<123566, 123566>>, <<123628, 123631>>,
   <<124139, 124143>>, <<124398, 124399>>, <<124643, 124643>>,
   <<124646, 124646>>, <<124654, 124655>>, <<124661, 124661>>,
   <<124671, 124671>>, <<125136, 125142>>, <<125252, 125259>>,
   <<127995, 127999>>, <<917505, 917505>>, <<917536, 917631>>,
   <<917760, 917999>>}

\* <<lo, hi>>: the characters with the property Cased and without
\* Case_Ignorable.
CasedRanges ==
  {<<65, 90>>, <<97, 122>>, <<170, 170>>, <<181, 181>>, <<186, 186>>,
   <<192, 214>>, <<216, 246>>, <<248, 442>>, <<444, 447>>, <<452, 659>>,
   <<662, 687>>, <<880, 883>>, <<886, 887>>, <<891, 893>>, <<895, 895>>,
   <<902, 902>>, <<904, 906>>, <<908, 908>>, <<910, 929>>, <<931, 1013>>,
   <<1015, 1153>>, <<1162, 1327>>, <<1329, 1366>>, <<1376, 1416>>,
   <<4256, 4293>>, <<4295, 4295>>, <<4301, 4301>>, <<4304, 4346>>,
   <<4349, 4351>>, <<5024, 5109>>, <<5112, 5117>>, <<7296, 7306>>,
   <<7312, 7354>>, <<7357, 7359>>, <<7424, 7467>>, <<7531, 7543>>,
   <<7545, 7578>>, <<7680, 7957>>, <<7960, 7965>>, <<7968, 8005>>,
   <<8008, 8013>>, <<8016, 8023>>, <<8025, 8025>>, <<8027, 8027>>,
   <<8029, 8029>>, <<8031, 8061>>, <<8064, 8116>>, <<8118, 8124>>,
   <<8126, 8126>>, <<8130, 8132>>, <<8134, 8140>>, <<8144, 8147>>,
   <<8150, 8155>>, <<8160, 8172>>, <<8178, 8180>>, <<8182, 8188>>,
   <<8450, 8450>>, <<8455, 8455>>, <<8458, 8467>>, <<8469, 8469>>,
   <<8473, 8477>>, <<8484, 8484>>, <<8486, 8486>>, <<8488, 8488>>,
   <<8490, 8493>>, <<8495, 8500>>, <<8505, 8505>>, <<8508, 8511>>,
   <<8517, 8521>>, <<8526, 8526>>, <<8544, 8575>>, <<8579, 8580>>,
   <<9398, 9449>>, <<11264, 11387>>, <<11390, 11492>>, <<11499, 11502>>,
   <<11506, 11507>>, <<11520, 11557>>, <<11559, 11559>>, <<11565, 11565>>,
   <<42560, 42605>>, <<42624, 42651>>, <<42786, 42863>>, <<42865, 42887>>,
   <<42891, 42894>>, <<42896, 42972>>, <<42997, 42998>>, <<43002, 43002>>,
   <<43824, 43866>>, <<43872, 43880>>, <<43888, 43967>>, <<64256, 64262>>,
   <<64275, 64279>>, <<65313, 65338>>, <<65345, 65370>>, <<66560, 66639>>,
   <<66736, 66771>>, <<66776, 66811>>, <<66928, 66938>>, <<66940, 66954>>,
   <<66956, 66962>>, <<66964, 66965>>, <<66967, 66977>>, <<66979, 66993>>,
   <<66995, 67001>>, <<67003, 67004>>, <<68736, 68786>>, <<68800, 68850>>,
   <<68944, 68965>>, <<68976, 68997>>, <<71840, 71903>>, <<93760, 93823>>,
   <<93856, 93880>>, <<93883, 93907>>, <<119808, 119892>>,
   <<119894, 119964>>, <<119966, 119967>>, <<119970, 119970>>,
   <<119973, 119974>>, <<119977, 119980>>, <<119982, 119993>>,
   <<119995, 119995>>, <<119997, 120003>>, <<120005, 120069>>,
   <<120071, 120074>>, <<120077, 120084>>, <<120086, 120092>>,
   <<120094, 120121>>, <<120123, 120126>>, <<120128, 120132>>,
   <<120134, 120134>>, <<120138, 120144>>, <<120146, 120485>>,
   <<120488, 120512>>, <<120514, 120538>>, <<120540, 120570>>,
   <<120572, 120596>>, <<120598, 120628>>, <<120630, 120654>>,
   <<120656, 120686>>, <<120688, 120712>>, <<120714, 120744>>,
   <<120746, 120770>>, <<120772, 120779>>, <<122624, 122633>>,
   <<122635, 122654>>, <<122661, 122666>>, <<125184, 125251>>,
   <<127280, 127305>>, <<127312, 127337>>, <<127344, 127369>>}

CaseIgnorable(c) == \E r \in CaseIgnorableRanges : r[1] <= c /\ c <= r[2]

Cased(c) == \E r \in CasedRanges : r[1] <= c /\ c <= r[2]

\* The lower-case mapping of one character: one character or, for 304, two.
\* A character that has no lower-case mapping stays.
LowerChar(c) ==
  IF c < 128 THEN (IF 65 <= c /\ c <= 90 THEN <<c + 32>> ELSE <<c>>)
  ELSE IF c = 304 THEN <<105, 775>>
  ELSE IF \E r \in LowerRanges : InRange(c, r)
  THEN <<c + (CHOOSE r \in LowerRanges : InRange(c, r))[4]>>
  ELSE <<c>>

\* The condition Final_Sigma of SpecialCasing.txt for the character at
\* position i: going back over case-ignorable characters there is a cased
\* letter, and going on over case-ignorable characters there is none.
FinalSigma(s, i) ==
  /\ \E j \in 1..(i - 1) :
       /\ ~CaseIgnorable(s[j]) /\ Cased(s[j])
       /\ \A k \in (j + 1)..(i - 1) : CaseIgnorable(s[k])
  /\ ~\E j \in (i + 1)..Len(s) :
       /\ ~CaseIgnorable(s[j]) /\ Cased(s[j])
       /\ \A k \in (i + 1)..(j - 1) : CaseIgnorable(s[k])

\* The lower-case form of the character at position i: a capital sigma
\* becomes the final sigma (962) at the end of a word and the small sigma
\* (963) elsewhere.
LowerAt(s, i) ==
  IF s[i] = 931
  THEN (IF FinalSigma(s, i) THEN <<962>> ELSE <<963>>)
  ELSE LowerChar(s[i])

\* The lower-case forms of the characters from position i on, one after
\* another.
RECURSIVE LowerFrom(_, _)
LowerFrom(s, i) ==
  IF i > Len(s) THEN <<>> ELSE LowerAt(s, i) \o LowerFrom(s, i + 1)

toLowerCase(s) == LowerFrom(s, 1)

includes(s, sub) ==
  \E i \in 0..(Len(s) - Len(sub)) : SubSeq(s, i + 1, i + Len(sub)) = sub

-----------------------------------------------------------------------------
(* The trigger keywords of generateAIResponse, as character sequences.     *)

kw_signature == Text(<<"s", "i", "g", "n", "a", "t", "u", "r", "e">>)
kw_what_am_i == Text(<<"w", "h", "a", "t", " ", "a", "m", " ", "i">>)
kw_strength == Text(<<"s", "t", "r", "e", "n", "g", "t", "h">>)
kw_good_at == Text(<<"g", "o", "o", "d", " ", "a", "t">>)
kw_improve == Text(<<"i", "m", "p", "r", "o", "v", "e">>)
kw_better == Text(<<"b", "e", "t", "t", "e", "r">>)
kw_team == Text(<<"t", "e", "a", "m">>)
kw_colleague == Text(<<"c", "o", "l", "l", "e", "a", "g", "u", "e">>)
kw_adapt == Text(<<"a", "d", "a", "p", "t">>)
kw_different == Text(<<"d", "i", "f", "f", "e", "r", "e", "n", "t">>)
kw_hello == Text(<<"h", "e", "l", "l", "o">>)
kw_hi == Text(<<"h", "i">>)
kw_help == Text(<<"h", "e", "l", "p">>)

-----------------------------------------------------------------------------
(* Object literals.  A literal is the sequence of its key: value entries   *)
(* in declaration order; a key declared twice keeps its last value.        *)

\* Variant: a key declared twice keeps its first value.
ObjectLiteral_firstWins(entries) ==
  LET keys == {entries[i][1] : i \in DOMAIN entries}
      first(k) == CHOOSE i \in DOMAIN entries :
                    /\ entries[i][1] = k
                    /\ \A j \in DOMAIN entries : entries[j][1] = k => i <= j
  IN [k \in keys |-> entries[first(k)][2]]

ObjectLiteral(entries) ==
  LET keys == {entries[i][1] : i \in DOMAIN entries}
      last(k) == CHOOSE i \in DOMAIN entries :
                   /\ entries[i][1] = k
                   /\ \A j \in DOMAIN entries : entries[j][1] = k => j <= i
  IN [k \in keys |-> entries[last(k)][2]]

descriptions ==
  ObjectLiteral(<<
    <<"action", "prefer taking immediate action and seeing quick results">>,
    <<"research", "like to understand details thoroughly before proceeding">>,
    <<"collaborate", "focus on building consensus and team alignment">>,
    <<"optimize", "emphasize efficiency and systematic approaches">>,
    <<"expressive", "communicate openly and energetically">>,
    <<"reflective", "think before speaking and prefer structured communication">>,
    <<"interactive", "love conversational exchanges and building on ideas">>,
    <<"purposeful", "communicate with clear intent and focus">>,
    <<"flexible", "adapt quickly and embrace change as opportunity">>,
    <<"analytical", "analyze implications before adapting">>,
    <<"collaborative", "consider human impact when adapting">>,
    <<"steady", "balance change with maintaining stability">>,
    <<"intuitive", "trust instincts and see big-picture patterns">>,
    <<"analytical", "rely on data and systematic reasoning">>,
    <<"social", "value input from others and multiple perspectives">>,
    <<"experiential", "draw on past experiences and proven approaches">> >>)

getTraitDescription(trait) ==
  OrElse(Lookup(descriptions, trait), Str("have a unique approach"))

strengths ==
  ObjectLiteral(<<
    <<"action", "You excel at making quick decisions and driving results">>,
    <<"research", "You bring thoroughness and deep analysis to projects">>,
    <<"collaborate", "You build strong team consensus and alignment">>,
    <<"optimize", "You create efficient systems and processes">>,
    <<"expressive", "You energize others with your open communication">>,
    <<"reflective", "You provide thoughtful, well-considered input">>,
    <<"interactive", "You facilitate great conversations and idea-building">>,
    <<"purposeful", "You communicate with clarity and impact">> >>)

\* Variant: the drive value is used as a string without a check, which throws
\* when the dimension is missing.
getStrengthsResponse_strict(traits) ==
  IF traits.t # "object" \/ "drive" \notin DOMAIN traits.members THEN Throw("TypeError")
  ELSE Return(<<
    "Your key strengths include: ",
    ToStr(OrElse(Lookup(strengths, Member(traits, "drive")),
                 Str("Unique problem-solving approaches"))),
    ", ",
    ToStr(OrElse(Lookup(strengths, Member(traits, "expression")),
                 Str("distinctive communication style"))),
    ", and your ability to ",
    IF StrictEq(Member(traits, "adaptive"), "flexible")
      THEN "adapt quickly to change"
    ELSE IF StrictEq(Member(traits, "adaptive"), "steady")
      THEN "provide stability during change"
    ELSE "navigate change thoughtfully",
    "." >>)

\* The parameter is the parsed dominant_traits; reading a property of null
\* throws a TypeError.
getStrengthsResponse(traits) ==
  IF traits.t # "object" THEN Throw("TypeError")
  ELSE Return(<<
    "Your key strengths include: ",
    ToStr(OrElse(Lookup(strengths, Member(traits, "drive")),
                 Str("Unique problem-solving approaches"))),
    ", ",
    ToStr(OrElse(Lookup(strengths, Member(traits, "expression")),
                 Str("distinctive communication style"))),
    ", and your ability to ",
    IF StrictEq(Member(traits, "adaptive"), "flexible")
      THEN "adapt quickly to change"
    ELSE IF StrictEq(Member(traits, "adaptive"), "steady")
      THEN "provide stability during change"
    ELSE "navigate change thoughtfully",
    "." >>)

improvements ==
  ObjectLiteral(<<
    <<"action", "Consider slowing down occasionally to gather more input from others">>,
    <<"research", "Try setting time limits for analysis to avoid over-researching">>,
    <<"collaborate", "Sometimes make decisions efficiently even without full consensus">>,
    <<"optimize", "Be open to creative solutions that might not follow standard processes">>,
    <<"expressive", "Practice listening more and giving others space to contribute">>,
    <<"reflective", "Share your thoughts more frequently, even if they're not fully formed">>,
    <<"interactive", "Sometimes focus on delivering clear conclusions rather than just exploring ideas">>,
    <<"purposeful", "Add more warmth and relationship-building to your communications">> >>)

\* Variant: the closing sentence is added only when a suggestion was found.
getImprovementResponse_closingIfFound(traits) ==
  IF traits.t # "object" THEN Throw("TypeError")
  ELSE Return(<<
    "To grow your communication effectiveness: ",
    ToStr(OrElse(Lookup(improvements, Member(traits, "drive")),
                 Str("Continue developing your unique approach"))),
    " and ",
    ToStr(OrElse(Lookup(improvements, Member(traits, "expression")),
                 Str("keep refining your communication style"))),
    IF Truthy(Lookup(improvements, Member(traits, "drive")))
       \/ Truthy(Lookup(improvements, Member(traits, "expression")))
    THEN ". Remember, these are suggestions to add to your strengths, not replace them."
    ELSE "." >>)

getImprovementResponse(traits) ==
  IF traits.t # "object" THEN Throw("TypeError")
  ELSE Return(<<
    "To grow your communication effectiveness: ",
    ToStr(OrElse(Lookup(improvements, Member(traits, "drive")),
                 Str("Continue developing your unique approach"))),
    " and ",
    ToStr(OrElse(Lookup(improvements, Member(traits, "expression")),
                 Str("keep refining your communication style"))),
    ". Remember, these are suggestions to add to your strengths, not replace them." >>)

\* Variant: optimize has a clause of its own, and no clause is left for the
\* values the conditional does not name.
getTeamResponse_noGeneric(traits) ==
  IF traits.t # "object" THEN Throw("TypeError")
  ELSE Return(<<
    "When working with teams, leverage your ",
    ToStr(Member(traits, "drive")),
    " approach by ",
    IF StrictEq(Member(traits, "drive"), "action")
      THEN "helping the team move forward decisively"
    ELSE IF StrictEq(Member(traits, "drive"), "research")
      THEN "ensuring decisions are well-informed"
    ELSE IF StrictEq(Member(traits, "drive"), "collaborate")
      THEN "building strong team unity"
    ELSE IF StrictEq(Member(traits, "drive"), "optimize")
      THEN "keeping the team organized and efficient"
    ELSE "undefined",
    ". Your ",
    ToStr(Member(traits, "expression")),
    " communication style helps by ",
    IF StrictEq(Member(traits, "expression"), "expressive")
      THEN "bringing energy and openness"
    ELSE IF StrictEq(Member(traits, "expression"), "reflective")
      THEN "providing thoughtful perspectives"
    ELSE IF StrictEq(Member(traits, "expression"), "interactive")
      THEN "facilitating great discussions"
    ELSE "keeping communications clear and focused",
    "." >>)

\* Variant: the two interpolated values change places.
getTeamResponse_crossed(traits) ==
  IF traits.t # "object" THEN Throw("TypeError")
  ELSE Return(<<
    "When working with teams, leverage your ",
    ToStr(Member(traits, "expression")),
    " approach by ",
    IF StrictEq(Member(traits, "drive"), "action")
      THEN "helping the team move forward decisively"
    ELSE IF StrictEq(Member(traits, "drive"), "research")
      THEN "ensuring decisions are well-informed"
    ELSE IF StrictEq(Member(traits, "drive"), "collaborate")
      THEN "building strong team unity"
    ELSE "keeping the team organized and efficient",
    ". Your ",
    ToStr(Member(traits, "drive")),
    " communication style helps by ",
    IF StrictEq(Member(traits, "expression"), "expressive")
      THEN "bringing energy and openness"
    ELSE IF StrictEq(Member(traits, "expression"), "reflective")
      THEN "providing thoughtful perspectives"
    ELSE IF StrictEq(Member(traits, "expression"), "interactive")
      THEN "facilitating great discussions"
    ELSE "keeping communications clear and focused",
    "." >>)

getTeamResponse(traits) ==
  IF traits.t # "object" THEN Throw("TypeError")
  ELSE Return(<<
    "When working with teams, leverage your ",
    ToStr(Member(traits, "drive")),
    " approach by ",
    IF StrictEq(Member(traits, "drive"), "action")
      THEN "helping the team move forward decisively"
    ELSE IF StrictEq(Member(traits, "drive"), "research")
      THEN "ensuring decisions are well-informed"
    ELSE IF StrictEq(Member(traits, "drive"), "collaborate")
      THEN "building strong team unity"
    ELSE "keeping the team organized and efficient",
    ". Your ",
    ToStr(Member(traits, "expression")),
    " communication style helps by ",
    IF StrictEq(Member(traits, "expression"), "expressive")
      THEN "bringing energy and openness"
    ELSE IF StrictEq(Member(traits, "expression"), "reflective")
      THEN "providing thoughtful perspectives"
    ELSE IF StrictEq(Member(traits, "expression"), "interactive")
      THEN "facilitating great discussions"
    ELSE "keeping communications clear and focused",
    "." >>)

\* Variant: the interpolated value is the drive.
getAdaptationResponse_byDrive(traits) ==
  IF traits.t # "object" THEN Throw("TypeError")
  ELSE Return(<<
    "To adapt your style with different people: With action-oriented colleagues, be direct and focus on results. With research-oriented people, provide data and allow time for analysis. With collaborative types, involve them in decisions. With process-oriented individuals, follow structure and be systematic. Your natural ",
    ToStr(Member(traits, "drive")),
    " approach to change will help you ",
    IF StrictEq(Member(traits, "adaptive"), "flexible")
      THEN "adjust quickly"
    ELSE IF StrictEq(Member(traits, "adaptive"), "steady")
      THEN "maintain stability while adapting"
    ELSE "make thoughtful adjustments",
    "." >>)

\* Variant: an adaptive value other than flexible and steady is an error.
getAdaptationResponse_throwing(traits) ==
  IF traits.t # "object" THEN Throw("TypeError")
  ELSE IF ~StrictEq(Member(traits, "adaptive"), "flexible")
          /\ ~StrictEq(Member(traits, "adaptive"), "steady") THEN Throw("Error")
  ELSE Return(<<
    "To adapt your style with different people: With action-oriented colleagues, be direct and focus on results. With research-oriented people, provide data and allow time for analysis. With collaborative types, involve them in decisions. With process-oriented individuals, follow structure and be systematic. Your natural ",
    ToStr(Member(traits, "adaptive")),
    " approach to change will help you ",
    IF StrictEq(Member(traits, "adaptive"), "flexible")
      THEN "adjust quickly"
    ELSE "maintain stability while adapting",
    "." >>)

getAdaptationResponse(traits) ==
  IF traits.t # "object" THEN Throw("TypeError")
  ELSE Return(<<
    "To adapt your style with different people: With action-oriented colleagues, be direct and focus on results. With research-oriented people, provide data and allow time for analysis. With collaborative types, involve them in decisions. With process-oriented individuals, follow structure and be systematic. Your natural ",
    ToStr(Member(traits, "adaptive")),
    " approach to change will help you ",
    IF StrictEq(Member(traits, "adaptive"), "flexible")
      THEN "adjust quickly"
    ELSE IF StrictEq(Member(traits, "adaptive"), "steady")
      THEN "maintain stability while adapting"
    ELSE "make thoughtful adjustments",
    "." >>)

\* Variant: the message is matched as typed.
lowerMessageOf_asTyped(msg) == msg

\* Line 386.
lowerMessageOf(msg) == toLowerCase(msg)

\* Variant: startsWith in place of includes.
asksSignature_atStart(lowerMessage) ==
  \/ /\ Len(lowerMessage) >= Len(kw_signature)
     /\ SubSeq(lowerMessage, 1, Len(kw_signature)) = kw_signature
  \/ /\ Len(lowerMessage) >= Len(kw_what_am_i)
     /\ SubSeq(lowerMessage, 1, Len(kw_what_am_i)) = kw_what_am_i

\* The conditions of lines 393, 397, 401, 405, 409, 415 and 421.
asksSignature(lowerMessage) ==
  includes(lowerMessage, kw_signature) \/ includes(lowerMessage, kw_what_am_i)

asksStrengths(lowerMessage) ==
  includes(lowerMessage, kw_strength) \/ includes(lowerMessage, kw_good_at)

asksImprovement(lowerMessage) ==
  includes(lowerMessage, kw_improve) \/ includes(lowerMessage, kw_better)

asksTeam(lowerMessage) ==
  includes(lowerMessage, kw_team) \/ includes(lowerMessage, kw_colleague)

asksAdaptation(lowerMessage) ==
  includes(lowerMessage, kw_adapt) \/ includes(lowerMessage, kw_different)

\* Variant: an empty message counts as a greeting.
isGreeting_orEmpty(lowerMessage) ==
  \/ lowerMessage = <<>>
  \/ includes(lowerMessage, kw_hello)
  \/ includes(lowerMessage, kw_hi)

\* Variant: the trigger 'hi' is forgotten.
isGreeting_helloOnly(lowerMessage) == includes(lowerMessage, kw_hello)

isGreeting(lowerMessage) ==
  includes(lowerMessage, kw_hello) \/ includes(lowerMessage, kw_hi)

asksHelp(lowerMessage) == includes(lowerMessage, kw_help)

\* Variant: the greeting of a user with an assessment names the signature.
greetingResponse_personal(asmt) ==
  IF asmt # JSNull
  THEN Return(<<"Hi! I'm here to help you understand and apply your communication signature. Feel free to ask me about your results, how to work with different types of people, or how to leverage your strengths.",
                " Your signature is ", asmt.signature, ".">>)
  ELSE Return(<<"Hello! I can help you understand communication styles and frameworks. To give you personalized advice, you'll need to complete the assessment first.">>)

\* Lines 416-418.
greetingResponse(asmt) ==
  IF asmt # JSNull
  THEN Return(<<"Hi! I'm here to help you understand and apply your communication signature. Feel free to ask me about your results, how to work with different types of people, or how to leverage your strengths.">>)
  ELSE Return(<<"Hello! I can help you understand communication styles and frameworks. To give you personalized advice, you'll need to complete the assessment first.">>)

\* Lines 422-424.  (The bullet character of the source text is written * here.)
helpResponse(asmt) ==
  IF asmt # JSNull
  THEN Return(<<"I can help you with:\n* Understanding your communication signature\n* Working with different personality types\n* Leveraging your strengths\n* Adapting your style for better results\n\nWhat would you like to explore?">>)
  ELSE Return(<<"I can help you understand communication styles and take the assessment. Complete your profile and assessment first for personalized insights.">>)

\* Line 429.
noAssessmentFallback ==
  <<"I'd love to help you with communication strategies! For personalized advice based on your unique style, please complete the assessment first.">>

\* Variant: the two arms of the conditional are swapped, so that the profile
\* arm reads the signature of null.
fallbackResponse_swapped(asmt) ==
  IF asmt # JSNull THEN Return(noAssessmentFallback) ELSE Throw("TypeError")

\* Lines 427-429.  dominant_traits is parsed again, once per interpolation.
fallbackResponse(asmt) ==
  IF asmt # JSNull THEN
    LET parsed == JSONparse(asmt.dominant_traits) IN
    IF parsed.kind = "throw" THEN parsed
    ELSE IF parsed.value.t # "object" THEN Throw("TypeError")
    ELSE Return(<<
      "That's a great question about communication! Based on your ",
      asmt.signature,
      " profile, I'd suggest considering your natural ",
      ToStr(Member(parsed.value, "drive")),
      " drive and ",
      ToStr(Member(parsed.value, "expression")),
      " communication style. Could you be more specific about what you'd like to know?" >>)
  ELSE Return(noAssessmentFallback)

\* Lines 414-429: the general responses, reached with or without an assessment.
generalResponse(lowerMessage, asmt) ==
  IF isGreeting(lowerMessage) THEN greetingResponse(asmt)
  ELSE IF asksHelp(lowerMessage) THEN helpResponse(asmt)
  ELSE fallbackResponse(asmt)

\* Variant: the adaptive and intelligence fragments change places.
signatureResponse_swapped(signature, traits) ==
  IF traits.t # "object" THEN Throw("TypeError")
  ELSE Return(<<
    "Based on your assessment, you are a ",
    signature,
    ". This means you naturally ",
    ToStr(getTraitDescription(Member(traits, "drive"))),
    " in your approach to work, ",
    ToStr(getTraitDescription(Member(traits, "expression"))),
    " in how you communicate, ",
    ToStr(getTraitDescription(Member(traits, "intelligence"))),
    " when facing change, and ",
    ToStr(getTraitDescription(Member(traits, "adaptive"))),
    " in how you process information." >>)

\* Lines 393-395: the signature response.
signatureResponse(signature, traits) ==
  IF traits.t # "object" THEN Throw("TypeError")
  ELSE Return(<<
    "Based on your assessment, you are a ",
    signature,
    ". This means you naturally ",
    ToStr(getTraitDescription(Member(traits, "drive"))),
    " in your approach to work, ",
    ToStr(getTraitDescription(Member(traits, "expression"))),
    " in how you communicate, ",
    ToStr(getTraitDescription(Member(traits, "adaptive"))),
    " when facing change, and ",
    ToStr(getTraitDescription(Member(traits, "intelligence"))),
    " in how you process information." >>)

generateAIResponse(msg, userContext, asmt) ==
  LET lowerMessage == lowerMessageOf(msg) IN
  IF asmt # JSNull THEN
    LET parsed == JSONparse(asmt.dominant_traits) IN
    IF parsed.kind = "throw" THEN parsed
    ELSE
      LET traits == parsed.value
          signature == asmt.signature
      IN
      IF asksSignature(lowerMessage) THEN signatureResponse(signature, traits)
      ELSE IF asksStrengths(lowerMessage) THEN getStrengthsResponse(traits)
      ELSE IF asksImprovement(lowerMessage) THEN getImprovementResponse(traits)
      ELSE IF asksTeam(lowerMessage) THEN getTeamResponse(traits)
      ELSE IF asksAdaptation(lowerMessage) THEN getAdaptationResponse(traits)
      ELSE generalResponse(lowerMessage, asmt)
  ELSE generalResponse(lowerMessage, asmt)

-----------------------------------------------------------------------------
(* The /api/chat handler from the point where the user row and the latest  *)
(* assessment row (or null) are in hand: lines 355-382.                    *)

\* Lines 358-368: the context string; JSON.parse of a stored column may throw.
chatContext(user, asmt) ==
  LET head == <<"User: ", user.full_name, " (", user.email, ")">>
                \o (IF user.job_title # "" THEN <<"\nRole: ", user.job_title>> ELSE <<>>)
                \o (IF user.company # "" THEN <<" at ", user.company>> ELSE <<>>)
                \o (IF user.industry # "" THEN <<"\nIndustry: ", user.industry>> ELSE <<>>)
  IN
  IF asmt = JSNull THEN Return(head)
  ELSE IF JSONparse(asmt.dominant_traits).kind = "throw" THEN JSONparse(asmt.dominant_traits)
  ELSE IF JSONparse(asmt.scores).kind = "throw" THEN JSONparse(asmt.scores)
  ELSE Return(head \o <<"\nCommunication Signature: ", asmt.signature,
                        "\nDominant Traits: ", "JSON", "\nScores: ", "JSON">>)

ChatFailed == [status |-> 500, error |-> "Chat processing failed"]

\* Variant: the tag follows the presence of a drive value.
contextTag_byDrive(asmt) ==
  IF asmt # JSNull
     /\ JSONparse(asmt.dominant_traits).value.t = "object"
     /\ "drive" \in DOMAIN JSONparse(asmt.dominant_traits).value.members
  THEN "assessment_available" ELSE "no_assessment"

\* Line 376.
contextTag(asmt) ==
  IF asmt # JSNull THEN "assessment_available" ELSE "no_assessment"

\* Variant: the response addresses the user by name.
respond_personal(user, msg, asmt) ==
  LET context == chatContext(user, asmt) IN
  IF context.kind = "throw" THEN ChatFailed
  ELSE
    LET aiResponse == generateAIResponse(msg, context.value, asmt) IN
    IF aiResponse.kind = "throw" THEN ChatFailed
    ELSE [status |-> 200,
          success |-> TRUE,
          response |-> <<user.full_name, ", ">> \o aiResponse.value,
          context |-> contextTag(asmt)]

respond(user, msg, asmt) ==
  LET context == chatContext(user, asmt) IN
  IF context.kind = "throw" THEN ChatFailed
  ELSE
    LET aiResponse == generateAIResponse(msg, context.value, asmt) IN
    IF aiResponse.kind = "throw" THEN ChatFailed
    ELSE [status |-> 200,
          success |-> TRUE,
          response |-> aiResponse.value,
          context |-> contextTag(asmt)]

-----------------------------------------------------------------------------
(* Bounded inputs.                                                         *)

\* A message is the concatenation of at most MaxTokens tokens.
MaxTokens == 2

\* How many calls a behaviour makes.
MaxCalls == 3

Vocabulary ==
  {kw_signature, kw_what_am_i, kw_strength, kw_good_at, kw_improve, kw_better,
   kw_team, kw_colleague, kw_adapt, kw_different, kw_hello, kw_hi, kw_help,
   Text(<<"S", "T", "R", "E", "N", "G", "T", "H">>),
   Text(<<"r", "a", "n", "d", "o", "m", " ", "t", "e", "x", "t">>),
   Text(<<"t", "h", "i", "s">>),
   Text(<<" ">>)}

RECURSIVE Flatten(_)
Flatten(tokens) ==
  IF tokens = <<>> THEN <<>> ELSE Head(tokens) \o Flatten(Tail(tokens))

AllMessages ==
  {Flatten(ts) : ts \in UNION {[1..n -> Vocabulary] : n \in 0..MaxTokens}}

\* Messages with letters outside ASCII: 'H' and I with dot above, 'h' and
\* dotless i, 'help' with E acute in upper case, 'signature' with a long s,
\* 'hi' after A grave, 'hi' after a Greek word that ends in capital sigma,
\* and 'H' with the Kelvin sign.
UnicodeMessages ==
  {Text(<<"H">>) \o <<304>>,
   Text(<<"h">>) \o <<305>>,
   Text(<<"H">>) \o <<201>> \o Text(<<"L", "P">>),
   <<383>> \o Text(<<"i", "g", "n", "a", "t", "u", "r", "e">>),
   <<192>> \o Text(<<" ", "H", "I">>),
   <<927, 916, 927, 931>> \o Text(<<" ", "h", "i">>),
   Text(<<"H">>) \o <<8490>>}

\* One message per response category, and the empty message.
ProbeMessages ==
  {<<>>, kw_signature, kw_good_at, kw_better, kw_colleague, kw_adapt, kw_hi,
   kw_help, Text(<<"r", "a", "n", "d", "o", "m", " ", "t", "e", "x", "t">>)}

Dimensions == {"drive", "expression", "adaptive", "intelligence"}

\* No value: the dimension is missing from the trait map.
Absent == "<absent>"

\* Per dimension: its recognized values, a value no table knows, and (drive,
\* expression, intelligence) a name that every object inherits.
ValuesOf(dim) ==
  CASE dim = "drive" ->
         {"action", "research", "collaborate", "optimize", "visionary", "constructor", Absent}
    [] dim = "expression" ->
         {"expressive", "reflective", "interactive", "purposeful", "visionary", "toString", Absent}
    [] dim = "adaptive" ->
         {"flexible", "steady", "analytical", "collaborative", "visionary", Absent}
    [] dim = "intelligence" ->
         {"intuitive", "analytical", "social", "experiential", "__proto__", Absent}

TraitMap(choice) ==
  [d \in {x \in Dimensions : choice[x] # Absent} |-> choice[d]]

AllTraitMaps ==
  {TraitMap(choice) : choice \in {c \in [Dimensions -> UNION {ValuesOf(d) : d \in Dimensions}] :
                                    \A d \in Dimensions : c[d] \in ValuesOf(d)}}

Row(signature, traitsText) ==
  [signature |-> signature,
   dominant_traits |-> traitsText,
   scores |-> JSONObjectText(<<>>)]

\* Every stored shape: an object with any subset of the dimensions, or null
\* (JSON.stringify(null) is the text "null").
AllAssessments ==
  {JSNull}
    \cup {Row("Strategic Catalyst", JSONObjectText(tm)) : tm \in AllTraitMaps}
    \cup {Row("Strategic Catalyst", JSONNullText)}

FewAssessments ==
  {JSNull,
   Row("Strategic Catalyst",
       JSONObjectText([drive |-> "action", expression |-> "reflective",
                       adaptive |-> "steady", intelligence |-> "analytical"])),
   Row("Empathic Analyst",
       JSONObjectText([expression |-> "visionary", adaptive |-> "flexible"])),
   Row("Empathic Analyst", JSONNullText)}

SomeUser ==
  [full_name |-> "Ada Lovelace", email |-> "ada@example.com",
   job_title |-> "Engineer", company |-> "", industry |-> "Software"]

-----------------------------------------------------------------------------
(* The PostgreSQL-backed server (src/api/index.js): its three tables,      *)
(* initDatabase, which creates them, and the handlers that write or read   *)
(* them.  initDatabase is called at line 64 and not awaited, and a handler *)
(* yields at each await pool.query(...): between two awaits it runs alone, *)
(* and while it awaits, initDatabase and the handlers of other requests    *)
(* may run.  A step of a handler is the statement it awaited, executed by  *)
(* the database, together with the code that runs on its result up to the  *)
(* next await or the reply.                                                *)
(*                                                                         *)
(* A body field that a handler only tests with ! is written with its empty *)
(* value ("" for a string, <<>> for the message) when the client left it   *)
(* out: undefined and the empty string are falsy alike.  A field whose     *)
(* absence reaches the database (dominantTraits, signatureKey) is a        *)
(* JavaScript value, Undefined when left out.  A NULL column that is only  *)
(* tested for truthiness (job_title, company, industry) is written "".     *)

\* JSON.stringify(value): undefined has no JSON text.
JSONstringify(v) ==
  CASE v.t = "object" -> JSONObjectText(v.members)
    [] v.t = "null" -> JSONNullText
    [] v.t = "undefined" -> Undefined

\* A query parameter: node-postgres sends undefined and null as NULL.
IsNull(param) == param = Undefined \/ param = JSNull

\* A fresh database, in which initDatabase has created no table yet: tables
\* are the tables that exist, serial holds the last value of each id sequence,
\* now is the clock CURRENT_TIMESTAMP reads.
EmptyDb ==
  [tables |-> {}, users |-> {}, assessments |-> {}, purchases |-> {},
   serial |-> [users |-> 0, assessments |-> 0, purchases |-> 0],
   now |-> 1]

\* Every statement runs at a later instant than the one before it.
Tick(d) == [d EXCEPT !.now = @ + 1]

Result(reply_, d) == [reply |-> reply_, db |-> d]

\* No reply yet.
NoOutcome == [status |-> 0]

\* SELECT ... FROM users WHERE email = $1
usersByEmail(d, email) == {u \in d.users : u.email = email}

\* A statement on a table that does not exist fails.
HasTable(d, table) == table \in d.tables

\* A handler in flight: the statement it awaits (pc), its request, what its
\* first query returned, and its reply once it has replied.
Handler(op, body) ==
  [pc |-> "start", op |-> op, body |-> body, userRows |-> {}, reply |-> NoOutcome]

\* The handler awaits the statement named pc.
Await(session, pc) == [session EXCEPT !.pc = pc]

\* res.json(...) or res.status(...).json(...): the handler has replied.
Answer(session, reply_) == [session EXCEPT !.pc = "done", !.reply = reply_]

\* A step of a handler: where it stands after it, and the database after it.
Step(session_, d) == [session |-> session_, db |-> d]

\* The requests that are handled at once.
Connections == {"first", "second"}

\* No request has arrived on the connection.
NoHandler ==
  [pc |-> "idle", op |-> "none", body |-> <<>>, userRows |-> {}, reply |-> NoOutcome]

\* The process right after the module was loaded: initDatabase awaits its
\* first statement (startup names the table of the statement it awaits).
ServerStarting ==
  [startup |-> "users", sessions |-> [c \in Connections |-> NoHandler]]

\* Lines 17-62, one awaited statement: CREATE TABLE IF NOT EXISTS succeeded,
\* or it failed and the catch block (line 59) logged the error, after which no
\* further statement of initDatabase runs.  next is the statement awaited
\* after this one.
initDatabase(d, statement, succeeded) ==
  IF ~succeeded THEN [next |-> "failed", db |-> d]
  ELSE [next |-> CASE statement = "users" -> "assessments"
                   [] statement = "assessments" -> "purchases"
                   [] statement = "purchases" -> "done",
        db |-> [d EXCEPT !.tables = @ \cup {statement}]]

\* Lines 259-274: the request is validated and the upsert is sent.
profileStart(body) ==
  IF body.fullName = "" \/ body.email = ""
  THEN Answer(Handler("profile", body),
              [status |-> 400, error |-> "Full name and email are required"])
  ELSE Await(Handler("profile", body), "upsert")

\* Lines 276-286: INSERT ... ON CONFLICT (email) DO UPDATE has run, and the
\* reply.  The id sequence advances on an update as well.
profileUpsert(d, session) ==
  LET body == session.body IN
  IF ~HasTable(d, "users")
  THEN Step(Answer(session, [status |-> 500, error |-> "Failed to save profile"]), d)
  ELSE
    LET existing == usersByEmail(d, body.email)
        row == IF existing = {}
               THEN [id |-> d.serial.users + 1,
                     full_name |-> body.fullName,
                     email |-> body.email,
                     job_title |-> body.jobTitle,
                     company |-> body.company,
                     industry |-> body.industry,
                     created_at |-> d.now]
               ELSE [(CHOOSE u \in existing : TRUE)
                       EXCEPT !.full_name = body.fullName,
                              !.job_title = body.jobTitle,
                              !.company = body.company,
                              !.industry = body.industry]
    IN Step(Answer(session, [status |-> 200, success |-> TRUE,
                             message |-> "Profile saved successfully", user |-> row]),
            Tick([d EXCEPT !.users = (@ \ existing) \cup {row},
                           !.serial.users = @ + 1]))

\* Lines 124-133: the request is validated and the SELECT is sent.
registerStart(body) ==
  IF body.fullName = "" \/ body.email = "" \/ body.password = ""
  THEN Answer(Handler("register", body), [status |-> 400, error |-> "All fields required"])
  ELSE Await(Handler("register", body), "select")

\* Lines 133-172: the SELECT has run.  bcrypt is not defined in this file, so
\* a registration for a new email ends in the catch block before its INSERT.
registerSelect(d, session) ==
  IF ~HasTable(d, "users")
  THEN Step(Answer(session, [status |-> 500, error |-> "Registration failed"]), d)
  ELSE IF usersByEmail(d, session.body.email) # {}
  THEN Step(Answer(session, [status |-> 400, error |-> "User already exists"]), d)
  ELSE Step(Answer(session, [status |-> 500, error |-> "Registration failed"]), d)

\* Lines 290-299: the request is validated and the user check is sent.
assessmentStart(body) ==
  IF body.email = "" \/ body.signature = ""
  THEN Answer(Handler("assessment", body),
              [status |-> 400, error |-> "Email and signature are required"])
  ELSE Await(Handler("assessment", body), "userCheck")

\* Variant: the submission goes on to its INSERT whatever the check found.
assessmentUserCheck_skipped(d, session) ==
  IF ~HasTable(d, "users")
  THEN Step(Answer(session, [status |-> 500, error |-> "Failed to save assessment"]), d)
  ELSE Step(Await(session, "insert"), d)

\* Lines 299-310: the user check has run; the INSERT is sent if it found a row.
assessmentUserCheck(d, session) ==
  IF ~HasTable(d, "users")
  THEN Step(Answer(session, [status |-> 500, error |-> "Failed to save assessment"]), d)
  ELSE IF usersByEmail(d, session.body.email) = {}
  THEN Step(Answer(session,
                   [status |-> 400,
                    error |-> "User profile not found. Please create profile first."]), d)
  ELSE Step(Await(session, "insert"), d)

\* Lines 310-327: the INSERT has run.  The columns are NOT NULL: a NULL
\* parameter fails the INSERT (after its id was drawn) and the catch block
\* answers 500.
assessmentInsert(d, session) ==
  LET body == session.body
      params == [email |-> body.email,
                 responses |-> JSONstringify(body.responses),
                 scores |-> JSONstringify(body.scores),
                 dominant_traits |-> JSONstringify(body.dominantTraits),
                 signature |-> body.signature,
                 signature_key |-> body.signatureKey]
      taken == [d EXCEPT !.serial.assessments = @ + 1]
  IN
  IF ~HasTable(d, "assessments")
  THEN Step(Answer(session, [status |-> 500, error |-> "Failed to save assessment"]), d)
  ELSE IF \/ IsNull(params.responses) \/ IsNull(params.scores)
          \/ IsNull(params.dominant_traits) \/ IsNull(params.signature_key)
  THEN Step(Answer(session, [status |-> 500, error |-> "Failed to save assessment"]),
            Tick(taken))
  ELSE
    LET row == [id |-> taken.serial.assessments,
                email |-> params.email,
                responses |-> params.responses,
                scores |-> params.scores,
                dominant_traits |-> params.dominant_traits,
                signature |-> params.signature,
                signature_key |-> params.signature_key,
                created_at |-> d.now]
    IN Step(Answer(session, [status |-> 200, success |-> TRUE,
                             message |-> "Assessment saved successfully",
                             assessment |-> row]),
            Tick([taken EXCEPT !.assessments = @ \cup {row}]))

\* Variant: ORDER BY created_at without DESC.
latestAssessment_ascending(d, email) ==
  LET rows == {a \in d.assessments : a.email = email} IN
  IF rows = {} THEN <<>>
  ELSE <<CHOOSE a \in rows : \A o \in rows : a.created_at <= o.created_at>>

\* Lines 343-349: SELECT * FROM assessments WHERE email = $1
\* ORDER BY created_at DESC LIMIT 1; the result's rows.
latestAssessment(d, email) ==
  LET rows == {a \in d.assessments : a.email = email} IN
  IF rows = {} THEN <<>>
  ELSE <<CHOOSE a \in rows : \A o \in rows : o.created_at <= a.created_at>>

\* Variant: only a missing email is rejected.
chatRejects_emailOnly(body) == body.email = ""

\* Line 335: !email || !message
chatRejects(body) == body.email = "" \/ body.message = <<>>

\* Lines 331-341: the request is validated and the user query is sent.
chatStart(body) ==
  IF chatRejects(body)
  THEN Answer(Handler("chat", body),
              [status |-> 400, error |-> "Email and message are required"])
  ELSE Await(Handler("chat", body), "userQuery")

\* Lines 341-349: the user query has run; the assessment query is sent.
chatUserQuery(d, session) ==
  IF ~HasTable(d, "users") THEN Step(Answer(session, ChatFailed), d)
  ELSE Step([session EXCEPT !.pc = "assessmentQuery",
                            !.userRows = usersByEmail(d, session.body.email)], d)

\* Variant: the handler stamps the assessment it has read.
chatAssessmentQuery_touching(d, session) ==
  IF ~HasTable(d, "assessments") THEN Step(Answer(session, ChatFailed), d)
  ELSE
    LET assessmentRows == latestAssessment(d, session.body.email) IN
    IF session.userRows = {}
    THEN Step(Answer(session, [status |-> 404, error |-> "User not found"]), d)
    ELSE Step(Answer(session,
                     respond(CHOOSE u \in session.userRows : TRUE, session.body.message,
                             IF Len(assessmentRows) > 0 THEN assessmentRows[1] ELSE JSNull)),
              IF Len(assessmentRows) > 0
              THEN [d EXCEPT !.assessments =
                      (@ \ {assessmentRows[1]})
                        \cup {[assessmentRows[1] EXCEPT !.created_at = d.now]}]
              ELSE d)

\* Lines 349-382: the assessment query has run; the user query's rows are
\* looked at only now (line 351), and the reply is built.
chatAssessmentQuery(d, session) ==
  IF ~HasTable(d, "assessments") THEN Step(Answer(session, ChatFailed), d)
  ELSE
    LET assessmentRows == latestAssessment(d, session.body.email) IN
    IF session.userRows = {}
    THEN Step(Answer(session, [status |-> 404, error |-> "User not found"]), d)
    ELSE Step(Answer(session,
                     respond(CHOOSE u \in session.userRows : TRUE, session.body.message,
                             IF Len(assessmentRows) > 0 THEN assessmentRows[1] ELSE JSNull)),
              d)

\* Lines 493-508: the request is validated and the INSERT is sent.
paymentStart(body) ==
  IF body.email = "" \/ body.serviceType = "" \/ body.amount = 0
  THEN Answer(Handler("payment", body),
              [status |-> 400, error |-> "Email, service type, and amount are required"])
  ELSE Await(Handler("payment", body), "insert")

\* Lines 508-518: the INSERT has run; the purchase is stored as completed.
paymentInsert(d, session) ==
  LET body == session.body IN
  IF ~HasTable(d, "purchases")
  THEN Step(Answer(session, [status |-> 500, error |-> "Payment processing failed"]), d)
  ELSE
    LET row == [id |-> d.serial.purchases + 1,
                email |-> body.email,
                service_type |-> body.serviceType,
                amount |-> body.amount,
                token |-> body.token,
                status |-> "completed",
                created_at |-> d.now]
    IN Step(Answer(session, [status |-> 200, success |-> TRUE,
                             message |-> "Payment processed successfully",
                             purchase |-> row]),
            Tick([d EXCEPT !.purchases = @ \cup {row},
                           !.serial.purchases = @ + 1]))

-----------------------------------------------------------------------------
(* The in-memory server (src/unnamed/part_004): three arrays in the        *)
(* process, and handlers without an await, so that a handler runs from its *)
(* first statement to its reply before the next request is looked at.      *)
(* Array indices are JavaScript's, from 0; the element at index i of an    *)
(* array a is a[i + 1] here.                                               *)

\* Lines 36-42 in a fresh process; now is the last reading of Date.now().
EmptyMemory == [users |-> <<>>, assessments |-> <<>>, purchases |-> <<>>, now |-> 0]

\* new Date(t).toISOString() for an instant of the first ten milliseconds.
toISOString(t) == "1970-01-01T00:00:00.00" \o ToString(t) \o "Z"

\* Variant: the entry's id is compared with the email.
findIndex_byId(users, email) ==
  IF \E i \in DOMAIN users : users[i].id = email
  THEN (CHOOSE i \in DOMAIN users :
          users[i].id = email /\ \A j \in 1..(i - 1) : users[j].id # email) - 1
  ELSE -1

\* users.findIndex(u => u.email === email): the first index, or -1.
findIndex(users, email) ==
  IF \E i \in DOMAIN users : users[i].email = email
  THEN (CHOOSE i \in DOMAIN users :
          users[i].email = email /\ \A j \in 1..(i - 1) : users[j].email # email) - 1
  ELSE -1

\* users.find(u => u.email === email), as the rows found.
find(users, email) ==
  IF findIndex(users, email) >= 0 THEN <<users[findIndex(users, email) + 1]>> ELSE <<>>

\* Lines 68-107.  The clock is read twice for a new entry: Date.now() (line
\* 85) reads tId, new Date() (line 93) reads tCreated.
memoryProfile(m, body, tId, tCreated) ==
  IF body.fullName = "" \/ body.email = ""
  THEN Result([status |-> 400, error |-> "Name and email required"], m)
  ELSE
    LET userIndex == findIndex(m.users, body.email)
        users == IF userIndex >= 0
                 THEN [m.users EXCEPT ![userIndex + 1] =
                         [@ EXCEPT !.fullName = body.fullName,
                                   !.jobTitle = body.jobTitle,
                                   !.company = body.company,
                                   !.industry = body.industry,
                                   !.teamSize = body.teamSize,
                                   !.emailUpdates = body.emailUpdates]]
                 ELSE Append(m.users,
                             [id |-> ToString(tId),
                              fullName |-> body.fullName,
                              email |-> body.email,
                              jobTitle |-> body.jobTitle,
                              company |-> body.company,
                              industry |-> body.industry,
                              teamSize |-> body.teamSize,
                              emailUpdates |-> body.emailUpdates,
                              createdAt |-> toISOString(tCreated)])
    IN Result([status |-> 200, success |-> TRUE,
               message |-> IF userIndex >= 0 THEN "Profile updated" ELSE "Profile created",
               user |-> users[IF userIndex >= 0 THEN userIndex + 1 ELSE Len(users)]],
              [m EXCEPT !.users = users])

\* Lines 110-146.  Date.now() (line 124) reads tId, new Date() (line 131)
\* reads tCompleted.
memoryAssessment(m, body, tId, tCompleted) ==
  IF body.email = "" \/ body.signature = ""
  THEN Result([status |-> 400, error |-> "Email and signature required"], m)
  ELSE IF find(m.users, body.email) = <<>>
  THEN Result([status |-> 404, error |-> "User not found"], m)
  ELSE
    LET user == find(m.users, body.email)[1]
        row == [id |-> ToString(tId),
                userId |-> user.id,
                responses |-> body.responses,
                scores |-> body.scores,
                dominantTraits |-> body.dominantTraits,
                signature |-> body.signature,
                signatureKey |-> body.signatureKey,
                completedAt |-> toISOString(tCompleted)]
    IN Result([status |-> 201, success |-> TRUE,
               message |-> "Assessment results saved",
               assessmentId |-> row.id, signature |-> row.signature],
              [m EXCEPT !.assessments = Append(@, row)])

\* Lines 149-186.  Date.now() reads tId (line 165) and tTransaction (line
\* 170), new Date() reads tCreated (line 171).  (status is the HTTP status of
\* a reply; the status field of this reply's body is written purchaseStatus.)
memoryPayment(m, body, tId, tTransaction, tCreated) ==
  IF body.email = "" \/ body.serviceType = "" \/ body.amount = 0
  THEN Result([status |-> 400, error |-> "Missing required fields"], m)
  ELSE IF find(m.users, body.email) = <<>>
  THEN Result([status |-> 404, error |-> "User not found"], m)
  ELSE
    LET user == find(m.users, body.email)[1]
        row == [id |-> ToString(tId),
                userId |-> user.id,
                serviceType |-> body.serviceType,
                amount |-> body.amount,
                status |-> "completed",
                transactionId |-> "mock_" \o ToString(tTransaction),
                createdAt |-> toISOString(tCreated)]
    IN Result([status |-> 200, success |-> TRUE, purchaseId |-> row.id,
               transactionId |-> row.transactionId, purchaseStatus |-> "completed"],
              [m EXCEPT !.purchases = Append(@, row)])

-----------------------------------------------------------------------------
(* The Yoco payment route (src/unnamed/part_000) with the charge service   *)
(* (part_002) and the Purchase model (part_001), and the profile route     *)
(* (src/src/routes/users.js), which writes the users table the payment     *)
(* route reads.  The payment handler awaits four times (User.findOne,      *)
(* Purchase.create, createCharge, purchase.update), the profile handler    *)
(* twice (User.findOne, then user.update or User.create); between two      *)
(* awaits a handler runs alone, and at an await the handlers of other      *)
(* requests may run.  A database call may reject, which takes the handler  *)
(* to its catch block.  Addresses and names are strings of code points:    *)
(* the validators of express-validator (validator.js) read and rewrite     *)
(* them character by character.                                            *)

\* How many requests are in the system.
MaxRequests == 2

Requests == 1..MaxRequests

\* The pieces of s between the occurrences of the character sep
\* (String.prototype.split).
RECURSIVE split(_, _)
split(s, sep) ==
  IF \A i \in DOMAIN s : s[i] # sep THEN <<s>>
  ELSE LET at == CHOOSE i \in DOMAIN s : s[i] = sep /\ \A j \in 1..(i - 1) : s[j] # sep
       IN <<SubSeq(s, 1, at - 1)>> \o split(SubSeq(s, at + 1, Len(s)), sep)

\* The pieces put together again with sep between them (Array.prototype.join).
RECURSIVE join(_, _)
join(pieces, sep) ==
  IF Len(pieces) = 0 THEN <<>>
  ELSE IF Len(pieces) = 1 THEN pieces[1]
  ELSE pieces[1] \o <<sep>> \o join(Tail(pieces), sep)

\* The length of a string in UTF-16 code units and in UTF-8 bytes.
RECURSIVE units(_)
units(s) ==
  IF s = <<>> THEN 0 ELSE (IF Head(s) >= 65536 THEN 2 ELSE 1) + units(Tail(s))

RECURSIVE isByteLength(_)
isByteLength(s) ==
  IF s = <<>> THEN 0
  ELSE (IF Head(s) < 128 THEN 1 ELSE IF Head(s) < 2048 THEN 2
        ELSE IF Head(s) < 65536 THEN 3 ELSE 4) + isByteLength(Tail(s))

Between(c, lo, hi) == lo <= c /\ c <= hi

AsciiLetter(c) == Between(c, 65, 90) \/ Between(c, 97, 122)

Digit(c) == Between(c, 48, 57)

\* The class \s of a regular expression.
WhiteSpace(c) ==
  \/ Between(c, 9, 13)
  \/ c \in {32, 160, 5760, 8232, 8233, 8239, 8287, 12288, 65279}
  \/ Between(c, 8192, 8202)

\* The ranges ¡-퟿, 豈-﷏ and ﷰ-￯ of validator.js.
Utf8Letter(c) ==
  Between(c, 161, 55295) \/ Between(c, 63744, 64975) \/ Between(c, 65008, 65519)

\* isFQDN with its default options: a top-level domain is required, of two
\* letters or more or of the form xn--; every label has 1 to 63 characters
\* out of letters, digits and hyphens, and neither begins nor ends with a
\* hyphen.
isFQDN(str) ==
  LET parts == split(str, 46)
      tld == parts[Len(parts)]
  IN
  /\ Len(parts) >= 2
  /\ \/ /\ Len(tld) >= 2
        /\ \A i \in DOMAIN tld :
             AsciiLetter(tld[i]) \/ (Utf8Letter(tld[i]) /\ tld[i] # 169)
     \/ /\ Len(tld) >= 4
        /\ tld[1] \in {120, 88}
        /\ tld[2] \in {110, 78}
        /\ \A i \in 3..Len(tld) : AsciiLetter(tld[i]) \/ Digit(tld[i]) \/ tld[i] = 45
  /\ \A i \in DOMAIN tld : ~WhiteSpace(tld[i])
  /\ \A k \in DOMAIN parts :
       LET part == parts[k] IN
       /\ part # <<>>
       /\ units(part) <= 63
       /\ \A i \in DOMAIN part :
            /\ AsciiLetter(part[i]) \/ Digit(part[i]) \/ part[i] = 45 \/ part[i] >= 161
            /\ ~Between(part[i], 65281, 65374)
       /\ part[1] # 45
       /\ part[Len(part)] # 45

\* A character of an unquoted local part.
EmailUserChar(c) ==
  \/ AsciiLetter(c) \/ Digit(c) \/ Utf8Letter(c)
  \/ c \in {33, 35, 36, 37, 38, 39, 42, 43, 45, 47, 61, 63, 94, 95, 96, 123, 124, 125, 126}

\* A character of a quoted local part, and one that may follow a backslash
\* there.
QuotedChar(c) ==
  \/ WhiteSpace(c) \/ Between(c, 1, 8) \/ c \in {11, 12, 127, 33}
  \/ Between(c, 14, 31) \/ Between(c, 35, 91) \/ Between(c, 93, 126)
  \/ Between(c, 160, 55295) \/ Between(c, 63744, 64975) \/ Between(c, 65008, 65519)

EscapedChar(c) ==
  \/ Between(c, 1, 9) \/ c \in {11, 12} \/ Between(c, 13, 127)
  \/ Between(c, 160, 55295) \/ Between(c, 63744, 64975) \/ Between(c, 65008, 65519)

RECURSIVE quotedEmailUser(_)
quotedEmailUser(s) ==
  \/ s = <<>>
  \/ QuotedChar(s[1]) /\ quotedEmailUser(Tail(s))
  \/ Len(s) >= 2 /\ s[1] = 92 /\ EscapedChar(s[2]) /\ quotedEmailUser(SubSeq(s, 3, Len(s)))

\* Variant: only the two addresses of the examples are addresses.
isEmail_examples(str) ==
  str \in {Text(<<"a", "d", "a", "@", "e", "x", "a", "m", "p", "l", "e", ".", "c", "o", "m">>),
           Text(<<"b", "o", "b", "@", "e", "x", "a", "m", "p", "l", "e", ".", "c", "o", "m">>)}

\* isEmail with its default options (part_000 line 10, users.js line 10):
\* the address is at most 254 characters long, the part after the last @ is
\* a domain name, the part before it is at most 64 bytes long and is either
\* quoted, between two quotation marks, or made of dot-separated non-empty
\* words.
isEmail(str) ==
  LET parts == split(str, 64)
      domain == parts[Len(parts)]
      user == join(SubSeq(parts, 1, Len(parts) - 1), 64)
  IN
  /\ units(str) <= 254
  /\ isByteLength(user) <= 64
  /\ isByteLength(domain) <= 254
  /\ isFQDN(domain)
  /\ IF user # <<>> /\ user[1] = 34 /\ user[Len(user)] = 34
     THEN quotedEmailUser(SubSeq(user, 2, Len(user) - 1))
     ELSE LET words == split(user, 46) IN
          \A k \in DOMAIN words :
            /\ words[k] # <<>>
            /\ \A i \in DOMAIN words[k] : EmailUserChar(words[k][i])

\* The domains normalizeEmail knows as Gmail's, iCloud's and Yandex's.
gmail_domains ==
  {Text(<<"g", "m", "a", "i", "l", ".", "c", "o", "m">>),
   Text(<<"g", "o", "o", "g", "l", "e", "m", "a", "i", "l", ".", "c", "o", "m">>)}

icloud_domains ==
  {Text(<<"i", "c", "l", "o", "u", "d", ".", "c", "o", "m">>),
   Text(<<"m", "e", ".", "c", "o", "m">>)}

yandex_domains ==
  {Text(<<"y", "a", "n", "d", "e", "x", ".", "r", "u">>),
   Text(<<"y", "a", "n", "d", "e", "x", ".", "u", "a">>),
   Text(<<"y", "a", "n", "d", "e", "x", ".", "k", "z">>),
   Text(<<"y", "a", "n", "d", "e", "x", ".", "c", "o", "m">>),
   Text(<<"y", "a", "n", "d", "e", "x", ".", "b", "y">>),
   Text(<<"y", "a", ".", "r", "u">>)}

\* The domains normalizeEmail knows as Outlook.com's and Yahoo's.
outlookdotcom_domains ==
  {Text(<<"h", "o", "t", "m", "a", "i", "l", ".", "a", "t">>),
   Text(<<"h", "o", "t", "m", "a", "i", "l", ".", "b", "e">>),
   Text(<<"h", "o", "t", "m", "a", "i", "l", ".", "c", "a">>),
   Text(<<"h", "o", "t", "m", "a", "i", "l", ".", "c", "l">>),
   Text(<<"h", "o", "t", "m", "a", "i", "l", ".", "c", "o", ".", "i", "l">>),
   Text(<<"h", "o", "t", "m", "a", "i", "l", ".", "c", "o", ".", "n", "z">>),
   Text(<<"h", "o", "t", "m", "a", "i", "l", ".", "c", "o", ".", "t", "h">>),
   Text(<<"h", "o", "t", "m", "a", "i", "l", ".", "c", "o", ".", "u", "k">>),
   Text(<<"h", "o", "t", "m", "a", "i", "l", ".", "c", "o", "m">>),
   Text(<<"h", "o", "t", "m", "a", "i", "l", ".", "c", "o", "m", ".", "a", "r">>),
   Text(<<"h", "o", "t", "m", "a", "i", "l", ".", "c", "o", "m", ".", "a", "u">>),
   Text(<<"h", "o", "t", "m", "a", "i", "l", ".", "c", "o", "m", ".", "b", "r">>),
   Text(<<"h", "o", "t", "m", "a", "i", "l", ".", "c", "o", "m", ".", "g", "r">>),
   Text(<<"h", "o", "t", "m", "a", "i", "l", ".", "c", "o", "m", ".", "m", "x">>),
   Text(<<"h", "o", "t", "m", "a", "i", "l", ".", "c", "o", "m", ".", "p", "e">>),
   Text(<<"h", "o", "t", "m", "a", "i", "l", ".", "c", "o", "m", ".", "t", "r">>),
   Text(<<"h", "o", "t", "m", "a", "i", "l", ".", "c", "o", "m", ".", "v", "n">>),
   Text(<<"h", "o", "t", "m", "a", "i", "l", ".", "c", "z">>),
   Text(<<"h", "o", "t", "m", "a", "i", "l", ".", "d", "e">>),
   Text(<<"h", "o", "t", "m", "a", "i", "l", ".", "d", "k">>),
   Text(<<"h", "o", "t", "m", "a", "i", "l", ".", "e", "s">>),
   Text(<<"h", "o", "t", "m", "a", "i", "l", ".", "f", "r">>),
   Text(<<"h", "o", "t", "m", "a", "i", "l", ".", "h", "u">>),
   Text(<<"h", "o", "t", "m", "a", "i", "l", ".", "i", "d">>),
   Text(<<"h", "o", "t", "m", "a", "i", "l", ".", "i", "e">>),
   Text(<<"h", "o", "t", "m", "a", "i", "l", ".", "i", "n">>),
   Text(<<"h", "o", "t", "m", "a", "i", "l", ".", "i", "t">>),
   Text(<<"h", "o", "t", "m", "a", "i", "l", ".", "j", "p">>),
   Text(<<"h", "o", "t", "m", "a", "i", "l", ".", "k", "r">>),
   Text(<<"h", "o", "t", "m", "a", "i", "l", ".", "l", "v">>),
   Text(<<"h", "o", "t", "m", "a", "i", "l", ".", "m", "y">>),
   Text(<<"h", "o", "t", "m", "a", "i", "l", ".", "p", "h">>),
   Text(<<"h", "o", "t", "m", "a", "i", "l", ".", "p", "t">>),
   Text(<<"h", "o", "t", "m", "a", "i", "l", ".", "s", "a">>),
   Text(<<"h", "o", "t", "m", "a", "i", "l", ".", "s", "g">>),
   Text(<<"h", "o", "t", "m", "a", "i", "l", ".", "s", "k">>),
   Text(<<"l", "i", "v", "e", ".", "b", "e">>),
   Text(<<"l", "i", "v", "e", ".", "c", "o", ".", "u", "k">>),
   Text(<<"l", "i", "v", "e", ".", "c", "o", "m">>),
   Text(<<"l", "i", "v", "e", ".", "c", "o", "m", ".", "a", "r">>),
   Text(<<"l", "i", "v", "e", ".", "c", "o", "m", ".", "m", "x">>),
   Text(<<"l", "i", "v", "e", ".", "d", "e">>),
   Text(<<"l", "i", "v", "e", ".", "e", "s">>),
   Text(<<"l", "i", "v", "e", ".", "e", "u">>),
   Text(<<"l", "i", "v", "e", ".", "f", "r">>),
   Text(<<"l", "i", "v", "e", ".", "i", "t">>),
   Text(<<"l", "i", "v", "e", ".", "n", "l">>),
   Text(<<"m", "s", "n", ".", "c", "o", "m">>),
   Text(<<"o", "u", "t", "l", "o", "o", "k", ".", "a", "t">>),
   Text(<<"o", "u", "t", "l", "o", "o", "k", ".", "b", "e">>),
   Text(<<"o", "u", "t", "l", "o", "o", "k", ".", "c", "l">>),
   Text(<<"o", "u", "t", "l", "o", "o", "k", ".", "c", "o", ".", "i", "l">>),
   Text(<<"o", "u", "t", "l", "o", "o", "k", ".", "c", "o", ".", "n", "z">>),
   Text(<<"o", "u", "t", "l", "o", "o", "k", ".", "c", "o", ".", "t", "h">>),
   Text(<<"o", "u", "t", "l", "o", "o", "k", ".", "c", "o", "m">>),
   Text(<<"o", "u", "t", "l", "o", "o", "k", ".", "c", "o", "m", ".", "a", "r">>),
   Text(<<"o", "u", "t", "l", "o", "o", "k", ".", "c", "o", "m", ".", "a", "u">>),
   Text(<<"o", "u", "t", "l", "o", "o", "k", ".", "c", "o", "m", ".", "b", "r">>),
   Text(<<"o", "u", "t", "l", "o", "o", "k", ".", "c", "o", "m", ".", "g", "r">>),
   Text(<<"o", "u", "t", "l", "o", "o", "k", ".", "c", "o", "m", ".", "p", "e">>),
   Text(<<"o", "u", "t", "l", "o", "o", "k", ".", "c", "o", "m", ".", "t", "r">>),
   Text(<<"o", "u", "t", "l", "o", "o", "k", ".", "c", "o", "m", ".", "v", "n">>),
   Text(<<"o", "u", "t", "l", "o", "o", "k", ".", "c", "z">>),
   Text(<<"o", "u", "t", "l", "o", "o", "k", ".", "d", "e">>),
   Text(<<"o", "u", "t", "l", "o", "o", "k", ".", "d", "k">>),
   Text(<<"o", "u", "t", "l", "o", "o", "k", ".", "e", "s">>),
   Text(<<"o", "u", "t", "l", "o", "o", "k", ".", "f", "r">>),
   Text(<<"o", "u", "t", "l", "o", "o", "k", ".", "h", "u">>),
   Text(<<"o", "u", "t", "l", "o", "o", "k", ".", "i", "d">>),
   Text(<<"o", "u", "t", "l", "o", "o", "k", ".", "i", "e">>),
   Text(<<"o", "u", "t", "l", "o", "o", "k", ".", "i", "n">>),
   Text(<<"o", "u", "t", "l", "o", "o", "k", ".", "i", "t">>),
   Text(<<"o", "u", "t", "l", "o", "o", "k", ".", "j", "p">>),
   Text(<<"o", "u", "t", "l", "o", "o", "k", ".", "k", "r">>),
   Text(<<"o", "u", "t", "l", "o", "o", "k", ".", "l", "v">>),
   Text(<<"o", "u", "t", "l", "o", "o", "k", ".", "m", "y">>),
   Text(<<"o", "u", "t", "l", "o", "o", "k", ".", "p", "h">>),
   Text(<<"o", "u", "t", "l", "o", "o", "k", ".", "p", "t">>),
   Text(<<"o", "u", "t", "l", "o", "o", "k", ".", "s", "a">>),
   Text(<<"o", "u", "t", "l", "o", "o", "k", ".", "s", "g">>),
   Text(<<"o", "u", "t", "l", "o", "o", "k", ".", "s", "k">>),
   Text(<<"p", "a", "s", "s", "p", "o", "r", "t", ".", "c", "o", "m">>)}

yahoo_domains ==
  {Text(<<"r", "o", "c", "k", "e", "t", "m", "a", "i", "l", ".", "c", "o", "m">>),
   Text(<<"y", "a", "h", "o", "o", ".", "c", "a">>),
   Text(<<"y", "a", "h", "o", "o", ".", "c", "o", ".", "u", "k">>),
   Text(<<"y", "a", "h", "o", "o", ".", "c", "o", "m">>),
   Text(<<"y", "a", "h", "o", "o", ".", "d", "e">>),
   Text(<<"y", "a", "h", "o", "o", ".", "f", "r">>),
   Text(<<"y", "a", "h", "o", "o", ".", "i", "n">>),
   Text(<<"y", "a", "h", "o", "o", ".", "i", "t">>),
   Text(<<"y", "m", "a", "i", "l", ".", "c", "o", "m">>)}

\* s without its dots that stand alone (runs of dots stay).
removeDots(s) ==
  LET alone(i) == s[i] = 46 /\ (i = 1 \/ s[i - 1] # 46) /\ (i = Len(s) \/ s[i + 1] # 46)
      kept == SelectSeq([i \in DOMAIN s |-> <<alone(i), s[i]>>], LAMBDA p : ~p[1])
  IN [i \in DOMAIN kept |-> kept[i][2]]

\* normalizeEmail with its default options: the domain is lower-cased; the
\* local part is lower-cased and, for the mail providers the function
\* knows, stripped of its sub-address (and of single dots for Gmail);
\* googlemail.com becomes gmail.com and every Yandex domain yandex.ru.  The
\* result is FALSE when nothing is left of the local part.
normalizeEmail(email) ==
  LET raw_parts == split(email, 64)
      domain == toLowerCase(raw_parts[Len(raw_parts)])
      user == join(SubSeq(raw_parts, 1, Len(raw_parts) - 1), 64)
      beforePlus == split(user, 43)[1]
      hyphened == split(user, 45)
      beforeLastHyphen ==
        IF Len(hyphened) > 1 THEN join(SubSeq(hyphened, 1, Len(hyphened) - 1), 45)
        ELSE hyphened[1]
      Address(local, host) ==
        IF local = <<>> THEN FALSE ELSE toLowerCase(local) \o <<64>> \o host
  IN
  IF domain \in gmail_domains
  THEN Address(removeDots(beforePlus), Text(<<"g", "m", "a", "i", "l", ".", "c", "o", "m">>))
  ELSE IF domain \in icloud_domains \/ domain \in outlookdotcom_domains
  THEN Address(beforePlus, domain)
  ELSE IF domain \in yahoo_domains
  THEN Address(beforeLastHyphen, domain)
  ELSE IF domain \in yandex_domains
  THEN toLowerCase(user) \o <<64>> \o Text(<<"y", "a", "n", "d", "e", "x", ".", "r", "u">>)
  ELSE toLowerCase(user) \o <<64>> \o domain

\* trim(): the string without the white space at its ends.
RECURSIVE trim(_)
trim(s) ==
  IF s = <<>> THEN s
  ELSE IF WhiteSpace(s[1]) THEN trim(Tail(s))
  ELSE IF WhiteSpace(s[Len(s)]) THEN trim(SubSeq(s, 1, Len(s) - 1))
  ELSE s

\* isLength: the length in code points, variation selectors not counted.
isLength(s, min, max) ==
  LET len == Cardinality({i \in DOMAIN s : s[i] \notin {65038, 65039}}) IN
  min <= len /\ len <= max

\* escape(): the characters & " ' < > / \ ` are replaced by HTML entities.
escapeChar(c) ==
  CASE c = 38 -> Text(<<"&", "a", "m", "p", ";">>)
    [] c = 34 -> Text(<<"&", "q", "u", "o", "t", ";">>)
    [] c = 39 -> Text(<<"&", "#", "x", "2", "7", ";">>)
    [] c = 60 -> Text(<<"&", "l", "t", ";">>)
    [] c = 62 -> Text(<<"&", "g", "t", ";">>)
    [] c = 47 -> Text(<<"&", "#", "x", "2", "F", ";">>)
    [] c = 92 -> Text(<<"&", "#", "x", "5", "C", ";">>)
    [] c = 96 -> Text(<<"&", "#", "9", "6", ";">>)
    [] OTHER -> <<c>>

RECURSIVE escape(_)
escape(s) ==
  IF s = <<>> THEN <<>> ELSE escapeChar(Head(s)) \o escape(Tail(s))

\* part_000, lines 11-13.
isServiceType(v) == v \in {"team-assessment", "coaching-session", "enterprise-report"}
isAmount(v) == v >= 0
isToken(v) == v # ""

validationPasses(body) ==
  /\ isEmail(body.email)
  /\ isServiceType(body.serviceType)
  /\ isAmount(body.amount)
  /\ isToken(body.token)

\* A request that has not arrived.
IdleSession ==
  [op |-> "none", pc |-> "idle", body |-> <<>>, userId |-> "", purchase |-> 0,
   paymentResult |-> [called |-> FALSE], reply |-> [status |-> 0]]

AdaAddress ==
  Text(<<"a", "d", "a", "@", "e", "x", "a", "m", "p", "l", "e", ".", "c", "o", "m">>)

BobAddress ==
  Text(<<"b", "o", "b", "@", "e", "x", "a", "m", "p", "l", "e", ".", "c", "o", "m">>)

\* The users table at the start: one user.
PayUsers ==
  {[id |-> "user-1", email |-> AdaAddress,
    fullName |-> Text(<<"A", "d", "a", " ", "L", "o", "v", "e", "l", "a", "c", "e">>)]}

\* users is the users table and created the number of rows it has been
\* given; purchases[i] is the record with id i; charges counts the gateway's
\* charges.
NoPayments ==
  [users |-> PayUsers, created |-> 1, purchases |-> <<>>, charges |-> 0,
   sessions |-> [r \in Requests |-> IdleSession]]

\* part_000, line 77.
PaymentFailed == [status |-> 500, error |-> "Payment processing failed"]

\* users.js, lines 71-74.
ProfileFailed == [status |-> 500, error |-> "Failed to save profile"]

\* Where the handler stands once it has replied.
Done(session, reply_) == [session EXCEPT !.pc = "done", !.reply = reply_]

\* part_000, lines 9-24: the request arrives, the chains of lines 10-13
\* validate and rewrite its body, and the handler reads it.
receive(session, body) ==
  IF ~validationPasses(body)
  THEN Done([session EXCEPT !.op = "payment", !.body = body],
            [status |-> 400, error |-> "Validation failed"])
  ELSE [session EXCEPT !.op = "payment", !.pc = "findUser",
                       !.body = [body EXCEPT !.email = normalizeEmail(@)]]

\* Lines 27-30: User.findOne resolved with a row, or with null.
findUser(session, rows) ==
  IF rows = {}
  THEN {Done(session, [status |-> 404, error |-> "User not found"])}
  ELSE {[session EXCEPT !.pc = "create", !.userId = u.id] : u \in rows}

\* Variant: the record is created as completed, as the mock routes do.
newPurchase_completed(id, session) ==
  [id |-> id,
   userId |-> session.userId,
   serviceType |-> session.body.serviceType,
   amount |-> session.body.amount,
   status |-> "completed",
   paymentMethod |-> "yoco",
   transactionId |-> ""]

\* Lines 33-39: the record Purchase.create stores (transactionId is NULL,
\* written "").
newPurchase(id, session) ==
  [id |-> id,
   userId |-> session.userId,
   serviceType |-> session.body.serviceType,
   amount |-> session.body.amount,
   status |-> "pending",
   paymentMethod |-> "yoco",
   transactionId |-> ""]

\* What the gateway did with a charge: it accepted it under an id, it
\* answered with an error that carries a message, or the call failed
\* otherwise (no answer, or an answer without a message).
Accepted(chargeId) == [kind |-> "accepted", id |-> chargeId]

Declined(message_) == [kind |-> "declined", message |-> message_]

Unanswered == [kind |-> "failed"]

\* Variant: the catch block reports every failure as 'Payment failed'.
createCharge_fixedError(answer) ==
  IF answer.kind = "accepted"
  THEN [called |-> TRUE, success |-> TRUE, chargeId |-> answer.id]
  ELSE [called |-> TRUE, success |-> FALSE, error |-> "Payment failed"]

\* part_002, lines 15-41: the result for an accepted charge, and the result
\* the catch block builds: error.response?.data?.message || 'Payment failed'.
createCharge(answer) ==
  CASE answer.kind = "accepted" ->
         [called |-> TRUE, success |-> TRUE, chargeId |-> answer.id]
    [] answer.kind = "declined" ->
         [called |-> TRUE, success |-> FALSE, error |-> answer.message]
    [] answer.kind = "failed" ->
         [called |-> TRUE, success |-> FALSE, error |-> "Payment failed"]

\* Lines 52-56 and 66: what purchase.update writes.
updatedPurchase(purchase, paymentResult) ==
  IF paymentResult.success
  THEN [purchase EXCEPT !.status = "completed",
                        !.transactionId = paymentResult.chargeId]
  ELSE [purchase EXCEPT !.status = "failed"]

\* Lines 58-63 and 68-72: the reply after the update.
paymentReply(session) ==
  IF session.paymentResult.success
  THEN [status |-> 200, success |-> TRUE, purchaseId |-> session.purchase,
        transactionId |-> session.paymentResult.chargeId,
        purchaseStatus |-> "completed"]
  ELSE [status |-> 400, success |-> FALSE, error |-> session.paymentResult.error,
        purchaseId |-> session.purchase]

\* users.js, lines 8-26, for a body with fullName and email (the optional
\* fields left out): fullName is trimmed, must be 2 to 100 characters long
\* and is escaped; email must be an address and is normalized.
receiveProfile(session, body) ==
  IF ~(isLength(trim(body.fullName), 2, 100) /\ isEmail(body.email))
  THEN Done([session EXCEPT !.op = "profile", !.body = body],
            [status |-> 400, error |-> "Validation failed"])
  ELSE [session EXCEPT !.op = "profile", !.pc = "findUser",
                       !.body = [fullName |-> escape(trim(body.fullName)),
                                 email |-> normalizeEmail(body.email)]]

\* Lines 29-31 and 41: User.findOne resolved with a row, which the handler
\* goes on to update, or with null.
findProfileUser(session, rows) ==
  IF rows = {}
  THEN {[session EXCEPT !.pc = "createUser"]}
  ELSE {[session EXCEPT !.pc = "updateUser", !.userId = u.id] : u \in rows}

\* Lines 33-40: the row after user.update.
updatedUser(user, body) == [user EXCEPT !.fullName = body.fullName]

\* Lines 43-51: the row User.create stores.
newUser(id, body) == [id |-> id, email |-> body.email, fullName |-> body.fullName]

\* Lines 54-67: a saved instance is no new record.
profileReply(user) ==
  [status |-> 200, success |-> TRUE, message |-> "Profile updated",
   user |-> [id |-> user.id, fullName |-> user.fullName, email |-> user.email]]

-----------------------------------------------------------------------------
(* The engine's state machine.  A caller of POST /api/chat sends message  *)
(* with the email of a user that exists; stored is the row of the          *)
(* assessments table that is the latest for this email (null when there is *)
(* none).  The handler gives control back at its two awaits: Receive is    *)
(* lines 331-341 (validation, first query sent), UserQuery the first       *)
(* query answered and the second sent (lines 341-349), AssessmentQuery the *)
(* second query answered and the rest of the handler to its reply (lines   *)
(* 349-382).  assessment is the handler's local of line 356, the row the   *)
(* second query found.  Next is one caller alone; in EngineSpec            *)
(* generateAIResponse is also called directly, with the message and the    *)
(* stored row.                                                             *)

NotCalled == [kind |-> "none"]

NoRequest == [op |-> "none"]

\* No request has reached the server.
ServerIdle ==
  /\ db = EmptyDb
  /\ srv = ServerStarting
  /\ mem = EmptyMemory
  /\ pay = NoPayments
  /\ request = NoRequest
  /\ reply = NoOutcome

\* The handler has not read an assessment row.
Unread == [t |-> "unread"]

\* Nothing calls the engine.
EngineIdle ==
  /\ message = <<>>
  /\ stored = JSNull
  /\ handler = "idle"
  /\ assessment = Unread
  /\ outcome = NoOutcome
  /\ answered = 0
  /\ calls = 0
  /\ replies = {}
  /\ generated = NotCalled

NoCallYet ==
  /\ handler = "idle"
  /\ assessment = Unread
  /\ outcome = NoOutcome
  /\ answered = 0
  /\ calls = 0
  /\ replies = {}
  /\ generated = NotCalled
  /\ ServerIdle

\* The request is either any message with one of a few assessments stored,
\* or one message per category with any assessment stored.
Init ==
  /\ \/ message \in AllMessages \cup UnicodeMessages /\ stored \in FewAssessments
     \/ message \in ProbeMessages /\ stored \in AllAssessments \cup FewAssessments
  /\ NoCallYet

\* Lines 331-382 as a function of the message and the row the second query
\* found: an empty message is rejected before anything is looked up.
chat(user, msg, asmt) ==
  IF chatRejects([email |-> user.email, message |-> msg])
  THEN [status |-> 400, error |-> "Email and message are required"]
  ELSE respond(user, msg, asmt)

EngineFrame == UNCHANGED <<serverVars, mem, pay>>

\* Lines 331-341: the caller's request arrives; it is rejected, or the user
\* query is sent and the handler awaits it.
Receive ==
  /\ handler \in {"idle", "done"}
  /\ calls < MaxCalls
  /\ calls' = calls + 1
  /\ assessment' = Unread
  /\ IF chatRejects([email |-> SomeUser.email, message |-> message])
     THEN /\ handler' = "done"
          /\ outcome' = [status |-> 400, error |-> "Email and message are required"]
     ELSE /\ handler' = "userQuery"
          /\ outcome' = NoOutcome
  /\ UNCHANGED <<message, stored, answered, replies, generated>>
  /\ EngineFrame

\* Lines 341-349: the user query is answered with the user's row and the
\* assessment query is sent, or the query rejects (lines 379-382).
UserQuery ==
  /\ handler = "userQuery"
  /\ \/ handler' = "assessmentQuery" /\ UNCHANGED outcome
     \/ handler' = "done" /\ outcome' = ChatFailed
  /\ UNCHANGED <<message, stored, assessment, answered, calls, replies, generated>>
  /\ EngineFrame

\* Lines 349-382: the assessment query is answered with the row stored at
\* this moment, and the handler runs on to its reply; or the query rejects.
AssessmentQuery ==
  /\ handler = "assessmentQuery"
  /\ handler' = "done"
  /\ \/ /\ assessment' = stored
        /\ outcome' = chat(SomeUser, message, stored)
        /\ answered' = answered + 1
     \/ /\ outcome' = ChatFailed
        /\ UNCHANGED <<assessment, answered>>
  /\ UNCHANGED <<message, stored, calls, replies, generated>>
  /\ EngineFrame

\* generateAIResponse is called with the message and the stored row (line
\* 385; the userContext argument is not read).
Generate ==
  /\ generated' = generateAIResponse(message, <<>>, stored)
  /\ UNCHANGED <<message, stored, handler, assessment, outcome, answered, calls,
                 replies>>
  /\ EngineFrame

\* One caller, request after request.
Next == Receive \/ UserQuery \/ AssessmentQuery

Spec == Init /\ [][Next]_vars

\* The engine called directly as well as through the handler.
EngineNext == Generate \/ Next

EngineSpec == Init /\ [][EngineNext]_vars

-----------------------------------------------------------------------------
(* The server's state machine: initDatabase runs its three statements      *)
(* while requests arrive at the five handlers, and each handler walks      *)
(* through its awaits, interleaved with initDatabase and with the handlers *)
(* of the other requests.                                                  *)

\* How many statements that write may run.
MaxWrites == 2

Emails == {"ada@example.com", "bob@example.com"}

ProfileBodies ==
  {[fullName |-> n, email |-> "ada@example.com", jobTitle |-> "Engineer",
    company |-> "", industry |-> "Software"] : n \in {"Ada Lovelace", ""}}

RegisterBodies ==
  {[fullName |-> "Ada Lovelace", email |-> "ada@example.com", password |-> pw] :
     pw \in {"secret", ""}}

\* The trait maps a client submits: an object, null, left out.
SubmittedTraits ==
  {Obj([drive |-> "research", expression |-> "expressive"]),
   JSNull,
   Undefined}

AssessmentBodies ==
  {[email |-> "ada@example.com", responses |-> Obj(<<>>), scores |-> Obj(<<>>),
    dominantTraits |-> t, signature |-> "Strategic Catalyst",
    signatureKey |-> Str("key")] : t \in SubmittedTraits}
  \cup
  {[email |-> "bob@example.com", responses |-> Obj(<<>>), scores |-> Obj(<<>>),
    dominantTraits |-> Obj([drive |-> "optimize"]),
    signature |-> sig, signatureKey |-> Str("key")] : sig \in {"Empathic Analyst", ""}}
  \cup
  {[email |-> "ada@example.com", responses |-> Obj(<<>>), scores |-> Obj(<<>>),
    dominantTraits |-> Obj([drive |-> "research", expression |-> "expressive"]),
    signature |-> "Strategic Catalyst", signatureKey |-> JSNull]}

ChatMessages == {<<>>, kw_colleague, kw_hello, kw_help, Text(<<"o", "k">>)}

ChatBodies ==
  {[email |-> "ada@example.com", message |-> m] : m \in ChatMessages}
    \cup {[email |-> e, message |-> kw_hello] : e \in {"bob@example.com", ""}}

PaymentBodies ==
  {[email |-> "ada@example.com", serviceType |-> "coaching-session", amount |-> amt,
    token |-> "tok_1"] : amt \in {0, 100}}

\* A column text that is not JSON.
MalformedText == [json |-> "malformed"]

\* A database that was in use before this process started (the tables are
\* created IF NOT EXISTS): one user with two assessments, the later of which
\* holds a dominant_traits text that another writer left behind.
LegacyDb ==
  [tables |-> {"users", "assessments", "purchases"},
   users |-> {[id |-> 1, full_name |-> "Ada Lovelace", email |-> "ada@example.com",
               job_title |-> "Engineer", company |-> "", industry |-> "Software",
               created_at |-> 0]},
   assessments |-> {[id |-> 1, email |-> "ada@example.com",
                     responses |-> JSONObjectText(<<>>),
                     scores |-> JSONObjectText(<<>>),
                     dominant_traits |->
                       JSONObjectText([drive |-> "action", expression |-> "reflective",
                                       adaptive |-> "steady", intelligence |-> "analytical"]),
                     signature |-> "Strategic Catalyst",
                     signature_key |-> Str("key"),
                     created_at |-> -1],
                    [id |-> 2, email |-> "ada@example.com",
                     responses |-> JSONObjectText(<<>>),
                     scores |-> JSONObjectText(<<>>),
                     dominant_traits |-> MalformedText,
                     signature |-> "Strategic Catalyst",
                     signature_key |-> Str("key"),
                     created_at |-> 0]},
   purchases |-> {},
   serial |-> [users |-> 1, assessments |-> 2, purchases |-> 0],
   now |-> 1]

\* The module has been loaded: initDatabase has sent its first statement, and
\* the server listens.
ServerInit ==
  /\ EngineIdle
  /\ db \in {EmptyDb, LegacyDb}
  /\ srv = ServerStarting
  /\ mem = EmptyMemory
  /\ pay = NoPayments
  /\ request = NoRequest
  /\ reply = NoOutcome

ServerFrame == UNCHANGED <<engineVars, request, reply, mem, pay>>

\* The connection takes a request when its last one has been answered.
Free(c) == srv.sessions[c].pc \in {"idle", "done"}

\* The handlers that are about to write.
Writing ==
  {c \in Connections : srv.sessions[c].pc \in {"upsert", "userCheck", "insert"}}

\* A request that writes is taken while the statements already under way
\* leave room for its own.
MayWrite == db.now + Cardinality(Writing) <= MaxWrites

\* The statement initDatabase awaits has run, or has failed.
InitDatabase ==
  \E succeeded \in BOOLEAN :
    /\ srv.startup \in {"users", "assessments", "purchases"}
    /\ srv' = [srv EXCEPT !.startup = initDatabase(db, srv.startup, succeeded).next]
    /\ db' = initDatabase(db, srv.startup, succeeded).db
    /\ ServerFrame

\* The request body arrives at the handler of its route on connection c.
Arrive(c, session) ==
  /\ Free(c)
  /\ srv' = [srv EXCEPT !.sessions[c] = session]
  /\ UNCHANGED db
  /\ ServerFrame

\* The statement the handler on connection c awaits has run.
Resume(c, step) ==
  /\ srv' = [srv EXCEPT !.sessions[c] = step.session]
  /\ db' = step.db
  /\ ServerFrame

PostProfile(c) ==
  \E body \in ProfileBodies : MayWrite /\ Arrive(c, profileStart(body))

ProfileUpsert(c) ==
  /\ srv.sessions[c].op = "profile"
  /\ srv.sessions[c].pc = "upsert"
  /\ Resume(c, profileUpsert(db, srv.sessions[c]))

PostRegister(c) ==
  \E body \in RegisterBodies : Arrive(c, registerStart(body))

RegisterSelect(c) ==
  /\ srv.sessions[c].op = "register"
  /\ srv.sessions[c].pc = "select"
  /\ Resume(c, registerSelect(db, srv.sessions[c]))

PostAssessment(c) ==
  \E body \in AssessmentBodies : MayWrite /\ Arrive(c, assessmentStart(body))

AssessmentUserCheck(c) ==
  /\ srv.sessions[c].op = "assessment"
  /\ srv.sessions[c].pc = "userCheck"
  /\ Resume(c, assessmentUserCheck(db, srv.sessions[c]))

AssessmentInsert(c) ==
  /\ srv.sessions[c].op = "assessment"
  /\ srv.sessions[c].pc = "insert"
  /\ Resume(c, assessmentInsert(db, srv.sessions[c]))

PostChat(c) ==
  \E body \in ChatBodies : Arrive(c, chatStart(body))

ChatUserQuery(c) ==
  /\ srv.sessions[c].op = "chat"
  /\ srv.sessions[c].pc = "userQuery"
  /\ Resume(c, chatUserQuery(db, srv.sessions[c]))

ChatAssessmentQuery(c) ==
  /\ srv.sessions[c].op = "chat"
  /\ srv.sessions[c].pc = "assessmentQuery"
  /\ Resume(c, chatAssessmentQuery(db, srv.sessions[c]))

PostPayment(c) ==
  \E body \in PaymentBodies : MayWrite /\ Arrive(c, paymentStart(body))

PaymentInsert(c) ==
  /\ srv.sessions[c].op = "payment"
  /\ srv.sessions[c].pc = "insert"
  /\ Resume(c, paymentInsert(db, srv.sessions[c]))

ServerNext ==
  \/ InitDatabase
  \/ \E c \in Connections :
       \/ PostProfile(c) \/ ProfileUpsert(c)
       \/ PostRegister(c) \/ RegisterSelect(c)
       \/ PostAssessment(c) \/ AssessmentUserCheck(c) \/ AssessmentInsert(c)
       \/ PostChat(c) \/ ChatUserQuery(c) \/ ChatAssessmentQuery(c)
       \/ PostPayment(c) \/ PaymentInsert(c)

ServerSpec == ServerInit /\ [][ServerNext]_vars

-----------------------------------------------------------------------------
(* Two callers at once.  Ada and Bob have saved their profiles; they chat  *)
(* and submit assessments over the two connections, each handler walking   *)
(* through its awaits while the other connection's handler runs in         *)
(* between.  replies is the record of what the callers were told: for each *)
(* chat that got as far as its reply, who asked what, the profile that was *)
(* the caller's at that moment, and the reply.                             *)

\* How many assessments the callers submit.
MaxSubmitted == 2

\* How many chats are on record or on their way.
MaxAsked == 4

\* initDatabase has created the three tables.
StartedDb == [EmptyDb EXCEPT !.tables = {"users", "assessments", "purchases"}]

CallerProfiles ==
  <<[fullName |-> "Ada Lovelace", email |-> "ada@example.com",
     jobTitle |-> "Engineer", company |-> "", industry |-> "Software"],
    [fullName |-> "Bob Marsh", email |-> "bob@example.com",
     jobTitle |-> "", company |-> "Acme", industry |-> ""]>>

\* The database after POST /api/users/profile was answered for Ada and then
\* for Bob.
ProfiledDb ==
  profileUpsert(profileUpsert(StartedDb, profileStart(CallerProfiles[1])).db,
                profileStart(CallerProfiles[2])).db

CallerChatBodies ==
  {[email |-> "ada@example.com", message |-> m] : m \in {kw_hello, kw_colleague}}
    \cup {[email |-> "bob@example.com", message |-> kw_colleague]}

\* Two trait maps, submitted under one signature.
CallerTraits ==
  {Obj([drive |-> "research", expression |-> "expressive"]),
   Obj([drive |-> "action", expression |-> "reflective"])}

\* Ada submits either map, Bob the first.
CallerAssessmentBodies ==
  {[email |-> "ada@example.com", responses |-> Obj(<<>>), scores |-> Obj(<<>>),
    dominantTraits |-> t, signature |-> "Strategic Catalyst",
    signatureKey |-> Str("key")] : t \in CallerTraits}
  \cup
  {[email |-> "bob@example.com", responses |-> Obj(<<>>), scores |-> Obj(<<>>),
    dominantTraits |-> Obj([drive |-> "research", expression |-> "expressive"]),
    signature |-> "Strategic Catalyst", signatureKey |-> Str("key")]}

\* The profile a caller has: signature and trait text of the assessment that
\* was stored last for the email (ids come from a sequence), null when none
\* is stored.
ProfileOf(d, email) ==
  LET rows == {a \in d.assessments : a.email = email} IN
  IF rows = {} THEN JSNull
  ELSE LET last == CHOOSE a \in rows : \A o \in rows : o.id <= a.id
       IN [signature |-> last.signature, dominant_traits |-> last.dominant_traits]

CallersInit ==
  /\ EngineIdle
  /\ db = ProfiledDb
  /\ srv = [startup |-> "done", sessions |-> [c \in Connections |-> NoHandler]]
  /\ mem = EmptyMemory
  /\ pay = NoPayments
  /\ request = NoRequest
  /\ reply = NoOutcome

CallersFrame ==
  UNCHANGED <<message, stored, handler, assessment, outcome, answered, calls,
              generated, request, reply, mem, pay>>

\* The assessments stored and those whose handler is on its way.
Submitted ==
  db.serial.assessments
    + Cardinality({c \in Connections : srv.sessions[c].pc \in {"userCheck", "insert"}})

\* The replies on record and the chats whose handler is on its way.
Asked ==
  Cardinality(replies)
    + Cardinality({c \in Connections :
                     srv.sessions[c].pc \in {"userQuery", "assessmentQuery"}})

\* Lines 331-341: a chat request arrives on connection c.
CallerChat(c) ==
  \E body \in CallerChatBodies :
    /\ Free(c)
    /\ Asked < MaxAsked
    /\ srv' = [srv EXCEPT !.sessions[c] = chatStart(body)]
    /\ UNCHANGED <<db, replies>>
    /\ CallersFrame

\* Lines 341-349: the user query of the chat on connection c is answered.
CallerUserQuery(c) ==
  /\ srv.sessions[c].op = "chat"
  /\ srv.sessions[c].pc = "userQuery"
  /\ srv' = [srv EXCEPT !.sessions[c] = chatUserQuery(db, srv.sessions[c]).session]
  /\ db' = chatUserQuery(db, srv.sessions[c]).db
  /\ UNCHANGED replies
  /\ CallersFrame

\* Lines 349-382: the assessment query of the chat on connection c is
\* answered and the handler replies.
CallerAssessmentQuery(c) ==
  /\ srv.sessions[c].op = "chat"
  /\ srv.sessions[c].pc = "assessmentQuery"
  /\ srv' = [srv EXCEPT !.sessions[c] = chatAssessmentQuery(db, srv.sessions[c]).session]
  /\ db' = chatAssessmentQuery(db, srv.sessions[c]).db
  /\ replies' = replies \cup
       {[email |-> srv.sessions[c].body.email,
         message |-> srv.sessions[c].body.message,
         profile |-> ProfileOf(db, srv.sessions[c].body.email),
         reply |-> srv'.sessions[c].reply]}
  /\ CallersFrame

\* Lines 290-299: an assessment arrives on connection c.
CallerSubmit(c) ==
  \E body \in CallerAssessmentBodies :
    /\ Free(c)
    /\ Submitted < MaxSubmitted
    /\ srv' = [srv EXCEPT !.sessions[c] = assessmentStart(body)]
    /\ UNCHANGED <<db, replies>>
    /\ CallersFrame

\* Lines 299-310: the user check of the submission on connection c is
\* answered.
CallerUserCheck(c) ==
  /\ srv.sessions[c].op = "assessment"
  /\ srv.sessions[c].pc = "userCheck"
  /\ srv' = [srv EXCEPT !.sessions[c] = assessmentUserCheck(db, srv.sessions[c]).session]
  /\ db' = assessmentUserCheck(db, srv.sessions[c]).db
  /\ UNCHANGED replies
  /\ CallersFrame

\* Lines 310-327: the INSERT of the submission on connection c has run.
CallerInsert(c) ==
  /\ srv.sessions[c].op = "assessment"
  /\ srv.sessions[c].pc = "insert"
  /\ srv' = [srv EXCEPT !.sessions[c] = assessmentInsert(db, srv.sessions[c]).session]
  /\ db' = assessmentInsert(db, srv.sessions[c]).db
  /\ UNCHANGED replies
  /\ CallersFrame

CallersNext ==
  \E c \in Connections :
    \/ CallerChat(c) \/ CallerUserQuery(c) \/ CallerAssessmentQuery(c)
    \/ CallerSubmit(c) \/ CallerUserCheck(c) \/ CallerInsert(c)

CallersSpec == CallersInit /\ [][CallersNext]_vars

-----------------------------------------------------------------------------
(* Vocabulary of the properties.                                           *)

\* The handler read the assessment row and replied from line 373 or 381.
Answered == assessment # Unread /\ outcome.status \in {200, 500}

\* generateAIResponse was called directly.
Generated == generated # NotCalled

Replied == Answered /\ outcome.status = 200

\* The category of a response, read off the opening literal of its template.
CategoryOf(response) ==
  CASE response[1] = "Based on your assessment, you are a " -> "signature-query"
    [] response[1] = "Your key strengths include: " -> "strengths-query"
    [] response[1] = "To grow your communication effectiveness: " -> "improvement-query"
    [] response[1] = "When working with teams, leverage your " -> "team-query"
    [] response[1] = getAdaptationResponse(Obj(<<>>)).value[1] -> "adaptation-query"
    [] response[1] \in {greetingResponse(JSNull).value[1],
                        greetingResponse(Row("Strategic Catalyst", JSONNullText)).value[1]} -> "greeting"
    [] response[1] \in {helpResponse(JSNull).value[1],
                        helpResponse(Row("Strategic Catalyst", JSONNullText)).value[1]} -> "help"
    [] OTHER -> "fallback"

\* The categories in priority order, each with its triggers.
ProfileTriggers ==
  << <<"signature-query", {kw_signature, kw_what_am_i}>>,
     <<"strengths-query", {kw_strength, kw_good_at}>>,
     <<"improvement-query", {kw_improve, kw_better}>>,
     <<"team-query", {kw_team, kw_colleague}>>,
     <<"adaptation-query", {kw_adapt, kw_different}>> >>

GeneralTriggers ==
  << <<"greeting", {kw_hello, kw_hi}>>,
     <<"help", {kw_help}>> >>

\* sub occurs in s at some position.
OccursIn(sub, s) ==
  \E i \in 1..Len(s) :
    /\ i + Len(sub) - 1 <= Len(s)
    /\ \A j \in 1..Len(sub) : s[i + j - 1] = sub[j]

\* The first category of `order` with a trigger occurring in `text`.
FirstMatch(order, text) ==
  LET hits == {k \in DOMAIN order : \E trig \in order[k][2] : OccursIn(trig, text)} IN
  IF hits = {} THEN "fallback"
  ELSE order[CHOOSE k \in hits : \A h \in hits : k <= h][1]

TraitsTextOf(asmt) == IF asmt = JSNull THEN JSONNullText ELSE asmt.dominant_traits

\* The trait map of the row is an object (possibly lacking dimensions).
HasTraits(asmt) == asmt # JSNull /\ TraitsTextOf(asmt).json = "object"

WellFormed(asmt) == HasTraits(asmt) /\ DOMAIN TraitsTextOf(asmt).members = Dimensions

TraitsText == TraitsTextOf(assessment)

HasTraitObject == HasTraits(assessment)

WellFormedProfile == WellFormed(assessment)

\* The value the profile holds for a dimension (Absent if it holds none).
TraitOf(dim) ==
  IF HasTraitObject /\ dim \in DOMAIN TraitsText.members
  THEN TraitsText.members[dim] ELSE Absent

-----------------------------------------------------------------------------
(* C1: with a profile present, the category of the response is the first   *)
(* category, in the order signature, strengths, improvement, team,         *)
(* adaptation, greeting, help, with a trigger occurring anywhere in the    *)
(* lower-cased message, and fallback if there is none; where in the        *)
(* message the triggers stand does not matter.                             *)
C1_PriorityClassification ==
  (Replied /\ assessment # JSNull) =>
    CategoryOf(outcome.response)
      = FirstMatch(ProfileTriggers \o GeneralTriggers, toLowerCase(message))

\* A lower-priority trigger stands before a higher-priority one.
C1_Witness ==
  /\ Replied
  /\ assessment # JSNull
  /\ message = kw_strength \o kw_signature
  /\ CategoryOf(outcome.response) = "signature-query"

(* C2: with no profile, the category is greeting if the lower-cased        *)
(* message contains hello or hi, else help if it contains help, else       *)
(* fallback; a profile-dependent trigger never yields a profile category.  *)
C2_NoProfileClassification ==
  (Answered /\ assessment = JSNull) =>
    /\ outcome.status = 200
    /\ CategoryOf(outcome.response) = FirstMatch(GeneralTriggers, toLowerCase(message))
    /\ CategoryOf(outcome.response) \in {"greeting", "help", "fallback"}

\* A profile-dependent trigger together with a general one, and no profile.
C2_Witness ==
  /\ Replied
  /\ assessment = JSNull
  /\ message = kw_signature \o kw_help
  /\ CategoryOf(outcome.response) = "help"

(* C3: whenever a chat response is produced, its context tag is            *)
(* assessment_available if and only if the assessment is non-null, and     *)
(* no_assessment otherwise, whatever category the message matched.         *)
C3_ContextDeterminism ==
  Replied =>
    /\ outcome.context = "assessment_available" <=> assessment # JSNull
    /\ outcome.context = "no_assessment" <=> assessment = JSNull

\* A profile without the drive dimension, answered in a general category.
C3_Witness ==
  /\ Replied
  /\ HasTraitObject
  /\ TraitOf("drive") = Absent
  /\ CategoryOf(outcome.response) = "greeting"
  /\ outcome.context = "assessment_available"

(* C4: for every message, the empty one included, and every profile that   *)
(* is null or holds all four dimensions, a response (a non-empty text) and *)
(* a context tag are returned and nothing is raised: generateAIResponse    *)
(* returns a non-empty text for every message, and the handler, which      *)
(* calls it for every non-empty message, replies with that text and a tag. *)
C4_Totality ==
  /\ (Generated /\ (stored = JSNull \/ WellFormed(stored))) =>
       /\ generated.kind = "return"
       /\ generated.value # <<>>
       /\ \A i \in DOMAIN generated.value : generated.value[i] # ""
  /\ (Answered /\ (assessment = JSNull \/ WellFormedProfile)) =>
       /\ outcome.status = 200
       /\ outcome.response = generateAIResponse(message, <<>>, assessment).value
       /\ outcome.response # <<>>
       /\ outcome.context \in {"assessment_available", "no_assessment"}

\* The empty message with a complete profile, given to the engine.
C4_Witness ==
  /\ Generated
  /\ WellFormed(stored)
  /\ message = <<>>
  /\ generated.kind = "return"
  /\ CategoryOf(generated.value) = "fallback"

\* The profile with every missing dimension holding the unrecognized value
\* "undefined".
FilledProfile ==
  Row(assessment.signature,
      JSONObjectText([d \in Dimensions |->
                        IF TraitOf(d) = Absent THEN "undefined" ELSE TraitOf(d)]))

(* C5: when the trait map lacks one or more of the four dimensions, no     *)
(* error is propagated for any message: the response is the one built for  *)
(* an unrecognized value of that dimension, with the default fragments in  *)
(* the looked-up slots.                                                    *)
C5_MissingDimension ==
  (Answered /\ HasTraitObject /\ ~WellFormedProfile) =>
    /\ outcome.status = 200
    /\ outcome = respond(SomeUser, message, FilledProfile)
    /\ (CategoryOf(outcome.response) = "strengths-query" /\ TraitOf("drive") = Absent)
         => outcome.response[2] = "Unique problem-solving approaches"
    /\ (CategoryOf(outcome.response) = "improvement-query" /\ TraitOf("expression") = Absent)
         => outcome.response[4] = "keep refining your communication style"
    /\ (CategoryOf(outcome.response) = "signature-query" /\ TraitOf("adaptive") = Absent)
         => outcome.response[8] = "have a unique approach"

\* A strengths response for a profile without drive.
C5_Witness ==
  /\ Replied
  /\ HasTraitObject
  /\ TraitOf("drive") = Absent
  /\ CategoryOf(outcome.response) = "strengths-query"
  /\ outcome.response[2] = "Unique problem-solving approaches"

(* C6: in a strengths response the drive slot holds the strength fragment  *)
(* of the drive value when it is action, research, collaborate or optimize *)
(* and 'Unique problem-solving approaches' for every other value; the      *)
(* expression slot holds the fragment for expressive, reflective,          *)
(* interactive or purposeful and 'distinctive communication style' for     *)
(* every other value.                                                      *)
C6_StrengthSlots ==
  (Replied /\ HasTraitObject /\ CategoryOf(outcome.response) = "strengths-query") =>
    /\ outcome.response[2] =
         IF TraitOf("drive") \in {"action", "research", "collaborate", "optimize"}
         THEN strengths[TraitOf("drive")]
         ELSE "Unique problem-solving approaches"
    /\ outcome.response[4] =
         IF TraitOf("expression") \in {"expressive", "reflective", "interactive", "purposeful"}
         THEN strengths[TraitOf("expression")]
         ELSE "distinctive communication style"

\* The slots of the four description fragments of a signature response.
DescriptionSlot(dim) ==
  CASE dim = "drive" -> 4
    [] dim = "expression" -> 6
    [] dim = "adaptive" -> 8
    [] dim = "intelligence" -> 10

(* C7: a description lookup of a value that is not a key of the            *)
(* description table (a missing value included) gives 'have a unique       *)
(* approach', so no description fragment of a signature response is empty  *)
(* or undefined.                                                           *)
C7_DescriptionDefault ==
  (Replied /\ HasTraitObject /\ CategoryOf(outcome.response) = "signature-query") =>
    \A dim \in Dimensions :
      outcome.response[DescriptionSlot(dim)] =
        IF TraitOf(dim) \in DOMAIN descriptions
        THEN descriptions[TraitOf(dim)]
        ELSE "have a unique approach"

(* C8: the reply is determined by (message, profile): whoever asks,       *)
(* whatever was asked and stored before and whatever the other connection  *)
(* does between the awaits of the handler, two chats with the same message *)
(* by callers whose profile (signature and traits of the assessment stored *)
(* last, or none) is the same get the same response and context.           *)
C8_Determinism ==
  \A p, q \in replies :
    (p.message = q.message /\ p.profile = q.profile) => p.reply = q.reply

\* Ada and Bob got the same answer to the same message from equal profiles,
\* Ada had asked the same before with another profile, and a handler is on
\* its way on the other connection.
C8_Witness ==
  /\ \E p, q, r \in replies :
       /\ p.email = "ada@example.com" /\ q.email = "bob@example.com"
       /\ p.message = kw_colleague /\ q.message = kw_colleague
       /\ p.profile # JSNull /\ p.profile = q.profile
       /\ p.reply.status = 200 /\ p.reply = q.reply
       /\ r.email = p.email /\ r.message = p.message
       /\ r.profile # p.profile /\ r.reply # p.reply
  /\ \E c \in Connections : srv.sessions[c].pc \notin {"idle", "done"}

(* C9: with no profile, a message that matches neither greeting nor help   *)
(* gets the one fixed no-profile fallback sentence, with nothing           *)
(* interpolated into it.                                                   *)
C9_NoProfileFallback ==
  (Answered /\ assessment = JSNull
     /\ ~OccursIn(kw_hello, toLowerCase(message))
     /\ ~OccursIn(kw_hi, toLowerCase(message))
     /\ ~OccursIn(kw_help, toLowerCase(message))) =>
    /\ outcome.status = 200
    /\ outcome.response =
         <<"I'd love to help you with communication strategies! For personalized advice based on your unique style, please complete the assessment first.">>

\* 'random text' with no profile.
C9_Witness ==
  /\ Replied
  /\ assessment = JSNull
  /\ message = Text(<<"r", "a", "n", "d", "o", "m", " ", "t", "e", "x", "t">>)
  /\ Len(outcome.response) = 1

\* The upper-case mapping of one character (String.prototype.toUpperCase):
\* dotless i becomes I and long s becomes S, which lower-casing does not undo.
UpperChar(c) ==
  IF c < 128 THEN (IF 97 <= c /\ c <= 122 THEN <<c - 32>> ELSE <<c>>)
  ELSE IF \E p \in UpperSpecial : p[1] = c
  THEN (CHOOSE p \in UpperSpecial : p[1] = c)[2]
  ELSE IF \E r \in UpperRanges : InRange(c, r)
  THEN <<c + (CHOOSE r \in UpperRanges : InRange(c, r))[4]>>
  ELSE <<c>>

\* The message with the characters at the positions in ups put in upper case
\* and the others in lower case.
RECURSIVE Recased(_, _, _)
Recased(m, i, ups) ==
  IF i > Len(m) THEN <<>>
  ELSE (IF i \in ups THEN UpperChar(m[i]) ELSE LowerChar(m[i])) \o Recased(m, i + 1, ups)

\* Re-casings of a message: all upper case, all lower case, the first letter
\* capitalised.
Recasings(m) ==
  {Recased(m, 1, ups) : ups \in {DOMAIN m, {}, {1}}}

\* No character of the message lies outside ASCII.
AsciiOnly(m) ==
  \A i \in DOMAIN m : m[i] < 128

(* C10 as stated: the reply to a message equals the reply to any           *)
(* re-casing of it.                                                        *)
C10_Original ==
  Answered =>
    \A m \in Recasings(message) : chat(SomeUser, m, assessment) = outcome

(* C10 amended: classification is case-insensitive as far as lower-casing  *)
(* goes: the reply to a message equals the reply to every re-casing of it  *)
(* that has the same lower-case form, which every re-casing of a message   *)
(* in ASCII letters has.                                                   *)
C10_CaseInsensitive ==
  Answered =>
    \A m \in Recasings(message) :
      (AsciiOnly(message) \/ toLowerCase(m) = toLowerCase(message)) =>
        chat(SomeUser, m, assessment) = outcome

\* STRENGTH in upper case, with a profile.
C10_Witness ==
  /\ Replied
  /\ assessment # JSNull
  /\ message = Text(<<"S", "T", "R", "E", "N", "G", "T", "H">>)
  /\ CategoryOf(outcome.response) = "strengths-query"

-----------------------------------------------------------------------------
(* Other profiles to compare with.                                         *)

\* The assessment with dimension dim holding v (holding nothing for Absent).
WithTrait(asmt, dim, v) ==
  LET members == asmt.dominant_traits.members
      keys == IF v = Absent THEN DOMAIN members \ {dim} ELSE DOMAIN members \cup {dim}
  IN Row(asmt.signature,
         JSONObjectText([d \in keys |-> IF d = dim THEN v ELSE members[d]]))

OtherSignature(sig) ==
  IF sig = "Strategic Catalyst" THEN "Empathic Analyst" ELSE "Strategic Catalyst"

\* The profiles that differ from the current one in the dimensions dims, one
\* at a time, or in the signature.
Variations(dims) ==
  IF ~HasTraitObject THEN {}
  ELSE UNION {{WithTrait(assessment, d, v) : v \in ValuesOf(d)} : d \in dims}
         \cup {Row(OtherSignature(assessment.signature), assessment.dominant_traits)}

(* C11: greeting and help have two variants each, chosen by the presence   *)
(* of a profile alone: two non-null profiles that differ in signature or   *)
(* in a trait value get the same greeting (or help) text.                  *)
C11_GreetingHelpByPresence ==
  (Replied /\ CategoryOf(outcome.response) \in {"greeting", "help"}) =>
    /\ CategoryOf(outcome.response) = "greeting" =>
         outcome.response =
           IF assessment # JSNull
           THEN <<"Hi! I'm here to help you understand and apply your communication signature. Feel free to ask me about your results, how to work with different types of people, or how to leverage your strengths.">>
           ELSE <<"Hello! I can help you understand communication styles and frameworks. To give you personalized advice, you'll need to complete the assessment first.">>
    /\ CategoryOf(outcome.response) = "help" =>
         outcome.response =
           IF assessment # JSNull
           THEN <<"I can help you with:\n* Understanding your communication signature\n* Working with different personality types\n* Leveraging your strengths\n* Adapting your style for better results\n\nWhat would you like to explore?">>
           ELSE <<"I can help you understand communication styles and take the assessment. Complete your profile and assessment first for personalized insights.">>
    /\ assessment # JSNull =>
         \A other \in (FewAssessments \ {JSNull}) \cup Variations(Dimensions) :
           respond(SomeUser, message, other) = outcome

\* A greeting for a profile that holds two of the dimensions.
C11_Witness ==
  /\ Replied
  /\ HasTraitObject
  /\ assessment.signature = "Empathic Analyst"
  /\ message = kw_hello
  /\ CategoryOf(outcome.response) = "greeting"

(* C12: the empty message is a fallback: generateAIResponse returns for it  *)
(* the profile-present fallback text when there is a profile and the       *)
(* no-profile fallback text when there is none.                            *)
C12_EmptyMessage ==
  (Generated /\ message = <<>> /\ (stored = JSNull \/ HasTraits(stored))) =>
    /\ generated.kind = "return"
    /\ stored = JSNull =>
         generated.value =
           <<"I'd love to help you with communication strategies! For personalized advice based on your unique style, please complete the assessment first.">>
    /\ stored # JSNull =>
         /\ Len(generated.value) = 7
         /\ generated.value[1] = "That's a great question about communication! Based on your "
         /\ generated.value[3] = " profile, I'd suggest considering your natural "
         /\ generated.value[5] = " drive and "
         /\ generated.value[7] = " communication style. Could you be more specific about what you'd like to know?"

\* The empty message with a profile that lacks dimensions.
C12_Witness ==
  /\ Generated
  /\ message = <<>>
  /\ HasTraits(stored)
  /\ ~WellFormed(stored)
  /\ generated.kind = "return"
  /\ Len(generated.value) = 7

\* The description fragment the code looks up for the profile's value of dim.
DescriptionOf(dim) ==
  ToStr(getTraitDescription(IF TraitOf(dim) = Absent THEN Undefined ELSE Str(TraitOf(dim))))

(* C13: a signature response is the signature label and then the           *)
(* description fragment of drive, expression, adaptive and intelligence,   *)
(* once each and in that order, each the lookup of that dimension's value. *)
C13_SignatureComposition ==
  (Replied /\ CategoryOf(outcome.response) = "signature-query") =>
    outcome.response =
      <<"Based on your assessment, you are a ",
        assessment.signature,
        ". This means you naturally ",
        DescriptionOf("drive"),
        " in your approach to work, ",
        DescriptionOf("expression"),
        " in how you communicate, ",
        DescriptionOf("adaptive"),
        " when facing change, and ",
        DescriptionOf("intelligence"),
        " in how you process information.">>

\* A signature response for four recognized values.
C13_Witness ==
  /\ Replied
  /\ WellFormedProfile
  /\ TraitOf("drive") = "research"
  /\ TraitOf("expression") = "purposeful"
  /\ TraitOf("adaptive") = "collaborative"
  /\ TraitOf("intelligence") = "social"
  /\ CategoryOf(outcome.response) = "signature-query"
  /\ outcome.response[8] = "consider human impact when adapting"

(* C14: the key analytical, declared twice, has its later value: no        *)
(* response holds 'analyze implications before adapting', and analytical   *)
(* renders 'rely on data and systematic reasoning' in the adaptive slot    *)
(* and in the intelligence slot of a signature response.                   *)
C14_AnalyticalShadowed ==
  Replied =>
    /\ \A i \in DOMAIN outcome.response :
         outcome.response[i] # "analyze implications before adapting"
    /\ (CategoryOf(outcome.response) = "signature-query" /\ TraitOf("adaptive") = "analytical")
         => outcome.response[8] = "rely on data and systematic reasoning"
    /\ (CategoryOf(outcome.response) = "signature-query" /\ TraitOf("intelligence") = "analytical")
         => outcome.response[10] = "rely on data and systematic reasoning"

\* A signature response with analytical in both dimensions.
C14_Witness ==
  /\ Replied
  /\ CategoryOf(outcome.response) = "signature-query"
  /\ TraitOf("adaptive") = "analytical"
  /\ TraitOf("intelligence") = "analytical"

(* C15: for a profile whose trait map lacks a dimension, no response of    *)
(* any category holds the text 'undefined' or an empty fragment.           *)
C15_NoUndefinedText ==
  (Replied /\ HasTraitObject /\ ~WellFormedProfile) =>
    \A i \in DOMAIN outcome.response : outcome.response[i] \notin {"undefined", ""}

(* C16: the closing clause of a strengths response depends on the adaptive *)
(* value alone: 'adapt quickly to change' for flexible, 'provide stability *)
(* during change' for steady, 'navigate change thoughtfully' for every     *)
(* other value, a missing one included.                                    *)
C16_StrengthsClosing ==
  (Replied /\ CategoryOf(outcome.response) = "strengths-query") =>
    /\ Len(outcome.response) = 7
    /\ outcome.response[5] = ", and your ability to "
    /\ outcome.response[6] =
         CASE TraitOf("adaptive") = "flexible" -> "adapt quickly to change"
           [] TraitOf("adaptive") = "steady" -> "provide stability during change"
           [] OTHER -> "navigate change thoughtfully"
    /\ outcome.response[7] = "."

\* A strengths response for adaptive = steady.
C16_Witness ==
  /\ Replied
  /\ CategoryOf(outcome.response) = "strengths-query"
  /\ TraitOf("adaptive") = "steady"
  /\ outcome.response[6] = "provide stability during change"

\* The profile's value of dim is none of the keys of a fragment table: it is
\* missing or unrecognized.
LookupMisses(table, dim) ==
  \/ TraitOf(dim) = Absent
  \/ TraitOf(dim) \notin DOMAIN table

(* C17: every improvement response, whatever the trait values, ends with   *)
(* 'Remember, these are suggestions to add to your strengths, not replace  *)
(* them.', and on a lookup miss its drive slot is 'Continue developing     *)
(* your unique approach' and its expression slot 'keep refining your       *)
(* communication style'.                                                   *)
C17_ImprovementClosing ==
  (Replied /\ CategoryOf(outcome.response) = "improvement-query") =>
    /\ Len(outcome.response) = 5
    /\ outcome.response[5] =
         ". Remember, these are suggestions to add to your strengths, not replace them."
    /\ LookupMisses(improvements, "drive")
         => outcome.response[2] = "Continue developing your unique approach"
    /\ LookupMisses(improvements, "expression")
         => outcome.response[4] = "keep refining your communication style"
    /\ TraitOf("drive") \in DOMAIN improvements
         => outcome.response[2] = improvements[TraitOf("drive")]
    /\ TraitOf("expression") \in DOMAIN improvements
         => outcome.response[4] = improvements[TraitOf("expression")]

(* C18: in a team response any drive other than action, research and       *)
(* collaborate gives 'keeping the team organized and efficient', any       *)
(* expression other than expressive, reflective and interactive gives      *)
(* 'keeping communications clear and focused', and no value is an error.   *)
C18_TeamClauses ==
  /\ (Replied /\ CategoryOf(outcome.response) = "team-query") =>
       /\ outcome.response[4] =
            CASE TraitOf("drive") = "action" -> "helping the team move forward decisively"
              [] TraitOf("drive") = "research" -> "ensuring decisions are well-informed"
              [] TraitOf("drive") = "collaborate" -> "building strong team unity"
              [] OTHER -> "keeping the team organized and efficient"
       /\ outcome.response[8] =
            CASE TraitOf("expression") = "expressive" -> "bringing energy and openness"
              [] TraitOf("expression") = "reflective" -> "providing thoughtful perspectives"
              [] TraitOf("expression") = "interactive" -> "facilitating great discussions"
              [] OTHER -> "keeping communications clear and focused"
  /\ (Answered /\ HasTraitObject /\ message = kw_colleague) =>
       (outcome.status = 200 /\ CategoryOf(outcome.response) = "team-query")

\* A team response for a drive no table knows and a purposeful expression.
C18_Witness ==
  /\ Replied
  /\ CategoryOf(outcome.response) = "team-query"
  /\ TraitOf("drive") = "visionary"
  /\ TraitOf("expression") = "purposeful"
  /\ outcome.response[4] = "keeping the team organized and efficient"

(* C19: an adaptation response depends on the profile through the adaptive *)
(* value alone: its clause is 'adjust quickly' for flexible, 'maintain     *)
(* stability while adapting' for steady, 'make thoughtful adjustments'     *)
(* otherwise, and profiles with the same adaptive value and other drive,   *)
(* expression, intelligence or signature get the same response.            *)
C19_AdaptationByAdaptive ==
  (Replied /\ CategoryOf(outcome.response) = "adaptation-query") =>
    /\ Len(outcome.response) = 5
    /\ outcome.response[4] =
         CASE TraitOf("adaptive") = "flexible" -> "adjust quickly"
           [] TraitOf("adaptive") = "steady" -> "maintain stability while adapting"
           [] OTHER -> "make thoughtful adjustments"
    /\ \A other \in Variations({"drive", "expression", "intelligence"}) :
         respond(SomeUser, message, other) = outcome

\* An adaptation response for a steady profile.
C19_Witness ==
  /\ Replied
  /\ CategoryOf(outcome.response) = "adaptation-query"
  /\ WellFormedProfile
  /\ TraitOf("adaptive") = "steady"
  /\ outcome.response[4] = "maintain stability while adapting"

\* What a template shows for the profile's value of dim.
Shown(dim) == IF TraitOf(dim) = Absent THEN "undefined" ELSE TraitOf(dim)

(* C20: a slot that interpolates a raw trait value or the signature shows  *)
(* the value the supplied profile holds for that dimension: drive and      *)
(* expression in a team response, adaptive in an adaptation response,      *)
(* signature, drive and expression in the profile-present fallback.        *)
C20_NoFabricatedValue ==
  (Replied /\ HasTraitObject) =>
    /\ CategoryOf(outcome.response) = "team-query" =>
         /\ outcome.response[2] = Shown("drive")
         /\ outcome.response[6] = Shown("expression")
    /\ CategoryOf(outcome.response) = "adaptation-query" =>
         outcome.response[2] = Shown("adaptive")
    /\ CategoryOf(outcome.response) = "fallback" =>
         /\ outcome.response[2] = assessment.signature
         /\ outcome.response[4] = Shown("drive")
         /\ outcome.response[6] = Shown("expression")

\* A team response for a complete profile.
C20_Witness ==
  /\ Replied
  /\ WellFormedProfile
  /\ CategoryOf(outcome.response) = "team-query"
  /\ outcome.response[2] = "optimize"
  /\ outcome.response[6] = "purposeful"

-----------------------------------------------------------------------------
(* Vocabulary of the server's properties.                                  *)

\* The last request was a chat request; its reply is in reply.
UsersOf(email) == {u \in db.users : u.email = email}

StoredFor(email) == {a \in db.assessments : a.email = email}

\* The row that was created last: ids are drawn from a sequence.
Newest(rows) == CHOOSE a \in rows : \A o \in rows : o.id <= a.id

\* The handler on connection c took a step.
Stepped(c) == srv'.sessions[c] # srv.sessions[c]

\* The chat handler on connection c, whose user query found a user, gets the
\* result of its assessment query and replies.
ChatAnswers(c) ==
  /\ srv.sessions[c].op = "chat"
  /\ srv.sessions[c].pc = "assessmentQuery"
  /\ srv.sessions[c].userRows # {}
  /\ HasTable(db, "assessments")
  /\ Stepped(c)

\* A chat request that was answered from line 373 or 381.
ChatServed(c) ==
  /\ srv.sessions[c].op = "chat"
  /\ srv.sessions[c].pc = "done"
  /\ srv.sessions[c].userRows # {}
  /\ srv.sessions[c].reply.status \in {200, 500}

(* C21: answering a chat message changes nothing that is stored: across    *)
(* every step of a chat handler, from the arrival of the request to the    *)
(* reply, the users, the assessments (the profile handed to the engine     *)
(* among them) and the purchases are what they were.                       *)
C21_ChatReadsOnly ==
  [][\A c \in Connections :
       (Stepped(c) /\ srv'.sessions[c].op = "chat") =>
         /\ db'.users = db.users
         /\ db'.assessments = db.assessments
         /\ db'.purchases = db.purchases]_vars

\* A chat was answered from a stored profile while all three tables hold rows.
C21_Witness ==
  \E c \in Connections :
    /\ ChatServed(c)
    /\ srv.sessions[c].reply.status = 200
    /\ srv.sessions[c].reply.context = "assessment_available"
    /\ StoredFor(srv.sessions[c].body.email) # {}
    /\ db.purchases # {}

(* C22: a chat request is answered from the assessment created last for    *)
(* its email among those stored when the handler reads them, never from an *)
(* older one, and with the no-profile variant and context 'no_assessment'  *)
(* only while none is stored for the email (and then always, once the      *)
(* table is there to be read).                                             *)
C22_LatestAssessment ==
  [][\A c \in Connections :
       ChatAnswers(c) =>
         LET user == CHOOSE u \in srv.sessions[c].userRows : TRUE
             body == srv.sessions[c].body
             rows == StoredFor(body.email)
             answer == srv'.sessions[c].reply
         IN /\ (answer.status = 200 /\ answer.context = "no_assessment") => rows = {}
            /\ rows = {} =>
                 /\ answer.status = 200
                 /\ answer.context = "no_assessment"
                 /\ answer.response = respond(user, body.message, JSNull).response
            /\ rows # {} =>
                 /\ answer = respond(user, body.message, Newest(rows))
                 /\ answer.status = 200 => answer.context = "assessment_available"
                 /\ answer.status = 200 /\ CategoryOf(answer.response) = "team-query" =>
                      answer.response[2] =
                        ToStr(Member(JSONparse(Newest(rows).dominant_traits).value, "drive"))]_vars

\* Two assessments are stored for the email with different drives, and the
\* team response names the drive of the later one.
C22_Witness ==
  \E c \in Connections :
    /\ ChatServed(c)
    /\ srv.sessions[c].reply.status = 200
    /\ \E old, new \in StoredFor(srv.sessions[c].body.email) :
         /\ old.id < new.id
         /\ new = Newest(StoredFor(srv.sessions[c].body.email))
         /\ old.dominant_traits = JSONObjectText([drive |-> "action", expression |-> "reflective",
                                                  adaptive |-> "steady", intelligence |-> "analytical"])
         /\ new.dominant_traits = JSONObjectText([drive |-> "research", expression |-> "expressive"])
    /\ CategoryOf(srv.sessions[c].reply.response) = "team-query"
    /\ srv.sessions[c].reply.response[2] = "research"

(* C23: a chat request with a missing or empty email or message is         *)
(* answered 400 on arrival, before any query and before the engine; one    *)
(* whose user query finds no user record is answered 404 when its second   *)
(* query returns; and so an empty message never gets a fallback (or any)   *)
(* response.                                                               *)
C23_ChatRejections ==
  /\ [](\A c \in Connections :
          srv.sessions[c].op = "chat" =>
            /\ (srv.sessions[c].body.email = "" \/ srv.sessions[c].body.message = <<>>) =>
                 /\ srv.sessions[c].pc = "done"
                 /\ srv.sessions[c].reply =
                      [status |-> 400, error |-> "Email and message are required"]
            /\ srv.sessions[c].body.message = <<>> => srv.sessions[c].reply.status # 200
            /\ (srv.sessions[c].pc = "done" /\ srv.sessions[c].reply.status = 200) =>
                 srv.sessions[c].userRows # {})
  /\ [][\A c \in Connections :
          (/\ srv.sessions[c].op = "chat"
           /\ srv.sessions[c].pc = "assessmentQuery"
           /\ srv.sessions[c].userRows = {}
           /\ UsersOf(srv.sessions[c].body.email) = {}
           /\ HasTable(db, "assessments")
           /\ Stepped(c)) =>
            srv'.sessions[c].reply = [status |-> 404, error |-> "User not found"]]_vars

\* The empty message of a user with a stored assessment was rejected, and a
\* chat for an email without a user was answered 404.
C23_Witness ==
  /\ \E c \in Connections :
       /\ srv.sessions[c].op = "chat"
       /\ srv.sessions[c].body.message = <<>>
       /\ UsersOf(srv.sessions[c].body.email) # {}
       /\ StoredFor(srv.sessions[c].body.email) # {}
       /\ srv.sessions[c].reply.status = 400
  /\ \E c \in Connections :
       /\ srv.sessions[c].op = "chat"
       /\ UsersOf(srv.sessions[c].body.email) = {}
       /\ srv.sessions[c].reply.status = 404

\* The dominant_traits text of the latest assessment stored for this email.
LatestTraitsText(email) == Newest(StoredFor(email)).dominant_traits

(* C24 as claimed: if the stored dominant_traits of the latest assessment  *)
(* is not parseable JSON or parses to null, the chat request ends with     *)
(* HTTP 500 'Chat processing failed' and no response/context pair.         *)
C24_Original ==
  [][\A c \in Connections :
       (/\ ChatAnswers(c)
        /\ StoredFor(srv.sessions[c].body.email) # {}
        /\ LatestTraitsText(srv.sessions[c].body.email) \in {MalformedText, JSONNullText}) =>
         srv'.sessions[c].reply = [status |-> 500, error |-> "Chat processing failed"]]_vars

(* C24 amended: dominant_traits that is not parseable JSON ends every chat *)
(* request with HTTP 500 'Chat processing failed'; dominant_traits that    *)
(* parses to null does so for every message with a profile trigger and for *)
(* every fallback message, while a greeting or help message without a      *)
(* profile trigger gets the profile-present greeting or help text with     *)
(* context 'assessment_available'.                                         *)
C24_MalformedTraits ==
  [][\A c \in Connections :
       (ChatAnswers(c) /\ StoredFor(srv.sessions[c].body.email) # {}) =>
         LET body == srv.sessions[c].body
             answer == srv'.sessions[c].reply
             category == FirstMatch(ProfileTriggers \o GeneralTriggers,
                                    toLowerCase(body.message))
         IN /\ LatestTraitsText(body.email) = MalformedText =>
                 answer = [status |-> 500, error |-> "Chat processing failed"]
            /\ (LatestTraitsText(body.email) = JSONNullText
                  /\ category \notin {"greeting", "help"}) =>
                 answer = [status |-> 500, error |-> "Chat processing failed"]
            /\ (LatestTraitsText(body.email) = JSONNullText
                  /\ category \in {"greeting", "help"}) =>
                 /\ answer.status = 200
                 /\ answer.context = "assessment_available"
                 /\ CategoryOf(answer.response) = category
                 /\ answer.response \notin
                      {<<"Hello! I can help you understand communication styles and frameworks. To give you personalized advice, you'll need to complete the assessment first.">>,
                       <<"I can help you understand communication styles and take the assessment. Complete your profile and assessment first for personalized insights.">>}]_vars

\* The latest dominant_traits of the email is the text null: a chat about
\* colleagues ended with 500 and a greeting was answered from the profile.
C24_Witness ==
  /\ StoredFor("ada@example.com") # {}
  /\ LatestTraitsText("ada@example.com") = JSONNullText
  /\ \E c \in Connections :
       /\ ChatServed(c)
       /\ srv.sessions[c].body = [email |-> "ada@example.com", message |-> kw_colleague]
       /\ srv.sessions[c].reply.status = 500
  /\ \E c \in Connections :
       /\ ChatServed(c)
       /\ srv.sessions[c].body = [email |-> "ada@example.com", message |-> kw_hello]
       /\ srv.sessions[c].reply.status = 200
       /\ srv.sessions[c].reply.context = "assessment_available"

(* C25: every stored assessment belongs to the email of an existing user:  *)
(* a submission whose user check finds no user for its email is answered   *)
(* 400 and stores nothing, and no request removes a user.                  *)
C25_AssessmentsHaveUsers ==
  /\ [](\A a \in db.assessments : UsersOf(a.email) # {})
  /\ [][/\ \A u \in db.users : \E v \in db'.users : v.email = u.email /\ v.id = u.id
        /\ \A c \in Connections :
             (/\ srv.sessions[c].op = "assessment"
              /\ srv.sessions[c].pc = "userCheck"
              /\ HasTable(db, "users")
              /\ UsersOf(srv.sessions[c].body.email) = {}
              /\ Stepped(c)) =>
               /\ srv'.sessions[c].pc = "done"
               /\ srv'.sessions[c].reply =
                    [status |-> 400,
                     error |-> "User profile not found. Please create profile first."]
               /\ db' = db]_vars

\* A submission for an email without a user was rejected while another
\* user's assessment is stored.
C25_Witness ==
  \E c \in Connections :
    /\ srv.sessions[c].op = "assessment"
    /\ srv.sessions[c].body.email = "bob@example.com"
    /\ UsersOf("bob@example.com") = {}
    /\ srv.sessions[c].reply.status = 400
    /\ srv.sessions[c].reply.error = "User profile not found. Please create profile first."
    /\ StoredFor("ada@example.com") # {}

-----------------------------------------------------------------------------
(* The in-memory server's state machine: requests are handled one at a     *)
(* time, in any order; the clock may or may not have advanced since the    *)
(* last request, and between two readings within one handler.              *)

\* The last instant at which a request arrives.
MaxClock == 2

\* How many assessments and purchases the arrays take.
MaxStored == 1

MemoryProfileBodies ==
  {[fullName |-> n, email |-> e, jobTitle |-> j, company |-> "", industry |-> "",
    teamSize |-> "", emailUpdates |-> FALSE] :
     n \in {"Ada Lovelace", "A. Lovelace", ""},
     e \in Emails \cup {""},
     j \in {"Engineer"}}

MemoryAssessmentBodies ==
  {[email |-> e, responses |-> Obj(<<>>), scores |-> Obj(<<>>),
    dominantTraits |-> Obj([drive |-> "action"]), signature |-> sig,
    signatureKey |-> Str("key")] :
     e \in {"ada@example.com"}, sig \in {"Strategic Catalyst", ""}}

MemoryPaymentBodies ==
  {[email |-> "ada@example.com", serviceType |-> "coaching-session", amount |-> amt,
    token |-> "tok_1"] : amt \in {0, 100}}

MemoryInit ==
  /\ EngineIdle
  /\ ServerIdle

\* n readings of the clock, one after another, the first no earlier than the
\* instant from: between two readings the clock stands or moves on by one.
Readings(from, n) ==
  {ts \in [1..n -> from..MaxClock] :
     /\ ts[1] \in {from, from + 1}
     /\ \A i \in 1..(n - 1) : ts[i + 1] \in {ts[i], ts[i] + 1}}

MemoryProfile ==
  \E body \in MemoryProfileBodies, ts \in Readings(mem.now, 2) :
    /\ request' = [op |-> "memory-profile", body |-> body]
    /\ reply' = memoryProfile(mem, body, ts[1], ts[2]).reply
    /\ mem' = [memoryProfile(mem, body, ts[1], ts[2]).db EXCEPT !.now = ts[2]]
    /\ UNCHANGED <<engineVars, db, srv, pay>>

MemoryAssessment ==
  \E body \in MemoryAssessmentBodies, ts \in Readings(mem.now, 2) :
    /\ Len(mem.assessments) < MaxStored
    /\ request' = [op |-> "memory-assessment", body |-> body]
    /\ reply' = memoryAssessment(mem, body, ts[1], ts[2]).reply
    /\ mem' = [memoryAssessment(mem, body, ts[1], ts[2]).db EXCEPT !.now = ts[2]]
    /\ UNCHANGED <<engineVars, db, srv, pay>>

MemoryPayment ==
  \E body \in MemoryPaymentBodies, ts \in Readings(mem.now, 3) :
    /\ Len(mem.purchases) < MaxStored
    /\ request' = [op |-> "memory-payment", body |-> body]
    /\ reply' = memoryPayment(mem, body, ts[1], ts[2], ts[3]).reply
    /\ mem' = [memoryPayment(mem, body, ts[1], ts[2], ts[3]).db EXCEPT !.now = ts[3]]
    /\ UNCHANGED <<engineVars, db, srv, pay>>

MemoryNext == MemoryProfile \/ MemoryAssessment \/ MemoryPayment

MemorySpec == MemoryInit /\ [][MemoryNext]_vars

\* The indices of the entries with this email.
EntriesOf(users, email) == {i \in DOMAIN users : users[i].email = email}

(* C26: the users array holds at most one entry per email, whatever the    *)
(* order of the profile requests: a post for an email that has an entry    *)
(* rewrites that entry where it is, with its id, email and createdAt kept, *)
(* and only a post for an email without an entry appends one.              *)
C26_OneEntryPerEmail ==
  /\ [](\A i, j \in DOMAIN mem.users :
          mem.users[i].email = mem.users[j].email => i = j)
  /\ [][(request'.op = "memory-profile" /\ reply'.status = 200) =>
          IF EntriesOf(mem.users, request'.body.email) # {}
          THEN /\ Len(mem'.users) = Len(mem.users)
               /\ \A i \in DOMAIN mem.users :
                    /\ mem'.users[i].id = mem.users[i].id
                    /\ mem'.users[i].email = mem.users[i].email
                    /\ mem'.users[i].createdAt = mem.users[i].createdAt
                    /\ i \notin EntriesOf(mem.users, request'.body.email)
                         => mem'.users[i] = mem.users[i]
                    /\ i \in EntriesOf(mem.users, request'.body.email)
                         => mem'.users[i].fullName = request'.body.fullName
               /\ reply'.message = "Profile updated"
          ELSE /\ Len(mem'.users) = Len(mem.users) + 1
               /\ SubSeq(mem'.users, 1, Len(mem.users)) = mem.users
               /\ mem'.users[Len(mem'.users)].email = request'.body.email
               /\ reply'.message = "Profile created"]_vars

\* The entry of an email was rewritten at a later instant than the one it
\* was created at, after another email's entry was appended behind it.
C26_Witness ==
  /\ request.op = "memory-profile"
  /\ reply.status = 200
  /\ reply.message = "Profile updated"
  /\ Len(mem.users) = 2
  /\ mem.users[1].email = request.body.email
  /\ mem.users[1].fullName = "A. Lovelace"
  /\ mem.users[1].id = "0"
  /\ mem.users[1].createdAt = toISOString(1)
  /\ mem.now = 2

-----------------------------------------------------------------------------
(* The state machine of the payment and profile routes: each request walks *)
(* through its handler's awaits, interleaved with the other requests.      *)

PayBodies ==
  {[email |-> AdaAddress, serviceType |-> "coaching-session",
    amount |-> 100, token |-> "tok_1"],
   [email |-> Text(<<"A", "d", "a", "@", "E", "x", "a", "m", "p", "l", "e", ".", "c", "o", "m">>),
    serviceType |-> "team-assessment", amount |-> 0, token |-> "tok_2"],
   [email |-> BobAddress, serviceType |-> "coaching-session",
    amount |-> 100, token |-> "tok_1"],
   [email |-> AdaAddress, serviceType |-> "coaching-session",
    amount |-> 100, token |-> ""],
   [email |-> Text(<<"a", "d", "a", "@", "e", "x", "a", "m", "p", "l", "e">>),
    serviceType |-> "workshop", amount |-> -1, token |-> "tok_1"]}

PayProfileBodies ==
  {[fullName |-> Text(<<"B", "o", "b", " ", "B", "u", "i", "l", "d", "e", "r">>),
    email |-> BobAddress],
   [fullName |-> Text(<<" ", "A", "&", "L", " ">>),
    email |-> Text(<<"A", "d", "a", "@", "E", "x", "a", "m", "p", "l", "e", ".", "c", "o", "m">>)],
   [fullName |-> Text(<<" ", "B", " ">>), email |-> BobAddress]}

\* The messages of the gateway's error answers.
DeclineMessages == {"Card declined"}

PayInit ==
  /\ EngineIdle
  /\ ServerIdle

PayFrame == UNCHANGED <<engineVars, serverVars, mem>>

UsersWith(email) == {u \in pay.users : u.email = email}

PayReceive(r) ==
  /\ pay.sessions[r].pc = "idle"
  /\ \E body \in PayBodies :
       pay' = [pay EXCEPT !.sessions[r] = receive(@, body)]
  /\ PayFrame

PayFindUser(r) ==
  /\ pay.sessions[r].op = "payment"
  /\ pay.sessions[r].pc = "findUser"
  /\ \/ \E next \in findUser(pay.sessions[r], UsersWith(pay.sessions[r].body.email)) :
          pay' = [pay EXCEPT !.sessions[r] = next]
     \/ pay' = [pay EXCEPT !.sessions[r] = Done(@, PaymentFailed)]
  /\ PayFrame

PayCreate(r) ==
  /\ pay.sessions[r].pc = "create"
  /\ \/ pay' = [pay EXCEPT
                  !.purchases = Append(@, newPurchase(Len(@) + 1, pay.sessions[r])),
                  !.sessions[r] = [@ EXCEPT !.pc = "charge",
                                            !.purchase = Len(pay.purchases) + 1]]
     \/ pay' = [pay EXCEPT !.sessions[r] = Done(@, PaymentFailed)]
  /\ PayFrame

PayCharge(r) ==
  /\ pay.sessions[r].pc = "charge"
  /\ \/ pay' = [pay EXCEPT
                  !.charges = @ + 1,
                  !.sessions[r] = [@ EXCEPT !.pc = "update",
                                            !.paymentResult =
                                               createCharge(Accepted("ch_" \o ToString(pay.charges + 1)))]]
     \/ \E answer \in {Declined(m) : m \in DeclineMessages} \cup {Unanswered} :
          pay' = [pay EXCEPT
                    !.sessions[r] = [@ EXCEPT !.pc = "update",
                                              !.paymentResult = createCharge(answer)]]
  /\ PayFrame

PayUpdate(r) ==
  /\ pay.sessions[r].pc = "update"
  /\ \/ pay' = [pay EXCEPT
                  !.purchases[pay.sessions[r].purchase] =
                     updatedPurchase(@, pay.sessions[r].paymentResult),
                  !.sessions[r] = Done(@, paymentReply(@))]
     \/ pay' = [pay EXCEPT !.sessions[r] = Done(@, PaymentFailed)]
  /\ PayFrame

ProfileReceive(r) ==
  /\ pay.sessions[r].pc = "idle"
  /\ \E body \in PayProfileBodies :
       pay' = [pay EXCEPT !.sessions[r] = receiveProfile(@, body)]
  /\ PayFrame

ProfileFindUser(r) ==
  /\ pay.sessions[r].op = "profile"
  /\ pay.sessions[r].pc = "findUser"
  /\ \/ \E next \in findProfileUser(pay.sessions[r], UsersWith(pay.sessions[r].body.email)) :
          pay' = [pay EXCEPT !.sessions[r] = next]
     \/ pay' = [pay EXCEPT !.sessions[r] = Done(@, ProfileFailed)]
  /\ PayFrame

\* user.update writes the row the handler found, or rejects.
ProfileUpdate(r) ==
  /\ pay.sessions[r].pc = "updateUser"
  /\ \/ \E u \in {x \in pay.users : x.id = pay.sessions[r].userId} :
          pay' = [pay EXCEPT
                    !.users = (@ \ {u}) \cup {updatedUser(u, pay.sessions[r].body)},
                    !.sessions[r] = Done(@, profileReply(updatedUser(u, pay.sessions[r].body)))]
     \/ pay' = [pay EXCEPT !.sessions[r] = Done(@, ProfileFailed)]
  /\ PayFrame

\* User.create stores a row, or rejects.  Whether it rejects when a row with
\* the email has been stored in the meantime is decided by the User model,
\* which the sources do not hold: either may happen.
ProfileCreate(r) ==
  /\ pay.sessions[r].pc = "createUser"
  /\ \/ LET user == newUser("user-" \o ToString(pay.created + 1), pay.sessions[r].body) IN
        pay' = [pay EXCEPT
                  !.users = @ \cup {user},
                  !.created = @ + 1,
                  !.sessions[r] = Done(@, profileReply(user))]
     \/ pay' = [pay EXCEPT !.sessions[r] = Done(@, ProfileFailed)]
  /\ PayFrame

PayNext ==
  \E r \in Requests :
    \/ PayReceive(r) \/ PayFindUser(r) \/ PayCreate(r) \/ PayCharge(r) \/ PayUpdate(r)
    \/ ProfileReceive(r) \/ ProfileFindUser(r) \/ ProfileUpdate(r) \/ ProfileCreate(r)

PaySpec == PayInit /\ [][PayNext]_vars

\* The purchase record of a request that has created one.
PurchaseOf(r) == pay.purchases[pay.sessions[r].purchase]

(* C27: the purchase record exists with status 'pending' before the charge *)
(* is attempted; it then moves only to 'completed' (the charge succeeded,  *)
(* its id is the transactionId, the reply is the success response) or to   *)
(* 'failed' (the charge failed, the reply is HTTP 400); no success         *)
(* response is sent for a purchase that is not 'completed'; no record is   *)
(* removed, that of a failed charge included.                              *)
C27_PurchaseLifecycle ==
  /\ [](\A r \in {q \in Requests : pay.sessions[q].op = "payment"} :
          LET session == pay.sessions[r] IN
          /\ session.pc = "charge" =>
               /\ session.purchase \in DOMAIN pay.purchases
               /\ PurchaseOf(r).status = "pending"
               /\ ~session.paymentResult.called
          /\ session.paymentResult.called => session.purchase \in DOMAIN pay.purchases
          /\ session.reply.status = 200 =>
               /\ session.paymentResult.called /\ session.paymentResult.success
               /\ PurchaseOf(r).status = "completed"
               /\ PurchaseOf(r).transactionId = session.paymentResult.chargeId
               /\ session.reply.transactionId = session.paymentResult.chargeId
               /\ session.reply.purchaseId = PurchaseOf(r).id
          /\ (session.reply.status = 400 /\ session.purchase # 0) =>
               /\ session.paymentResult.called /\ ~session.paymentResult.success
               /\ PurchaseOf(r).status = "failed"
          /\ (session.purchase # 0 /\ PurchaseOf(r).status = "completed") =>
               session.paymentResult.called /\ session.paymentResult.success
          /\ (session.purchase # 0 /\ PurchaseOf(r).status = "failed") =>
               session.paymentResult.called /\ ~session.paymentResult.success)
  /\ [][/\ \A i \in DOMAIN pay.purchases :
             /\ i \in DOMAIN pay'.purchases
             /\ pay'.purchases[i].id = pay.purchases[i].id
             /\ \/ pay'.purchases[i].status = pay.purchases[i].status
                \/ /\ pay.purchases[i].status = "pending"
                   /\ pay'.purchases[i].status \in {"completed", "failed"}
        /\ \A i \in DOMAIN pay'.purchases \ DOMAIN pay.purchases :
             pay'.purchases[i].status = "pending"]_vars

\* One request was charged and answered with the success response while the
\* other's charge failed and its record is stored as failed.
C27_Witness ==
  \E r, q \in {p \in Requests : pay.sessions[p].op = "payment"} :
    /\ pay.sessions[r].reply.status = 200
    /\ PurchaseOf(r).status = "completed"
    /\ pay.sessions[q].reply.status = 400
    /\ pay.sessions[q].purchase # 0
    /\ PurchaseOf(q).status = "failed"

====
